---- MODULE Spec2Model ----
(***************************************************************************)
(* A model of ripgzip: the bit reader, the canonical Huffman tables, the   *)
(* tracking writer, the DEFLATE block decoder and the gzip member loop.    *)
(* Each component has its own specification over the shared variables.     *)
(***************************************************************************)
EXTENDS Integers, Sequences, FiniteSets, TLC

VARIABLES
    source,       \* the bytes the byte source held at construction (never changes)
    bit_reader,   \* BitReader { stream, bit_sequence }: stream is what is left of the source
    consumed,     \* number of stream bits logically consumed so far (bookkeeping for the claims)
    last,         \* the last operation and what it returned (bookkeeping for the claims)
    huffman,      \* a code-length vector and the HuffmanCoding built from it
    writer,       \* TrackingWriter { inner, buffer, byte_counter, digest }
    member_start, \* how many bytes the sink held at the last clear (bookkeeping for the claims)
    run           \* decompress: where the member loop stands and what it returned

vars == <<source, bit_reader, consumed, last, huffman, writer, member_start, run>>

----------------------------------------------------------------------------
(* Bounds *)

MaxSrcLen == 3
MaxSyms == 5        \* longest enumerated code-length vector
MaxCodes == 2       \* longest enumerated run of encoded symbols
WindowSize == 3     \* the window limit the tracking writer runs with on its own
SinkCap == 5        \* capacity of the largest bounded sink
MaxBuf == 2         \* longest buffer offered to write
MaxCopy == 3        \* longest back-reference copy
MaxPayload == 2     \* longest payload of the enumerated stored members

----------------------------------------------------------------------------
(* Arithmetic helpers *)

Pow2(n) == 2 ^ n

BitAt(x, i) == (x \div Pow2(i)) % 2

Min(a, b) == IF a < b THEN a ELSE b

SeqsUpTo(S, n) == UNION { [1..k -> S] : k \in 0..n }

----------------------------------------------------------------------------
(* src/bit_reader.rs *)

BitSequence(bits, len) == [bits |-> bits, len |-> len]

\* BitSequence::concat: (self.bits << other.len) + other.bits in u16
concat(self, other) ==
    BitSequence((self.bits * Pow2(other.len) + other.bits) % 65536,
                self.len + other.len)

BitReaderNew(stream) == [stream |-> stream, bit_sequence |-> BitSequence(0, 0)]

\* a variant that shifts every new byte in at position 0
RECURSIVE read_bits_loop_noshift(_, _, _, _)
read_bits_loop_noshift(stream, bit_sequence, already_len, len) ==
    IF already_len < len
    THEN IF stream = <<>>
         THEN [ok |-> FALSE, stream |-> stream, bit_sequence |-> bit_sequence,
               already_len |-> already_len]
         ELSE read_bits_loop_noshift(Tail(stream),
                             bit_sequence * 256 + Head(stream),
                             already_len + 8, len)
    ELSE [ok |-> TRUE, stream |-> stream, bit_sequence |-> bit_sequence,
          already_len |-> already_len]

\* the while loop of read_bits: take whole bytes until already_len >= len
RECURSIVE read_bits_loop(_, _, _, _)
read_bits_loop(stream, bit_sequence, already_len, len) ==
    IF already_len < len
    THEN IF stream = <<>>
         THEN [ok |-> FALSE, stream |-> stream, bit_sequence |-> bit_sequence,
               already_len |-> already_len]
         ELSE read_bits_loop(Tail(stream),
                             bit_sequence + Head(stream) * Pow2(already_len),
                             already_len + 8, len)
    ELSE [ok |-> TRUE, stream |-> stream, bit_sequence |-> bit_sequence,
          already_len |-> already_len]

\* read_bits after the loop: the low len bits are returned, the others
\* are kept.  On a failed read the early return leaves self.bit_sequence
\* as it was; the bytes taken by the loop are gone.
read_bits_result(self, len, l) ==
    IF l.ok
    THEN [ok |-> TRUE,
          value |-> BitSequence((l.bit_sequence % Pow2(len)) % 65536, len),
          reader |-> [stream |-> l.stream,
                      bit_sequence |->
                          BitSequence((l.bit_sequence \div Pow2(len)) % 65536,
                                      l.already_len - len)]]
    ELSE [ok |-> FALSE, err |-> "UnexpectedEof",
          reader |-> [stream |-> l.stream, bit_sequence |-> self.bit_sequence]]

\* BitReader::read_bits
read_bits(self, len) ==
    read_bits_result(self, len,
        read_bits_loop(self.stream, self.bit_sequence.bits,
                       self.bit_sequence.len, len))

\* a variant that forgets to clear the accumulator
borrow_keep(self) == self

\* BitReader::borrow_reader_from_boundary
borrow_reader_from_boundary(self) ==
    [stream |-> self.stream, bit_sequence |-> BitSequence(0, 0)]

\* read_u8 on the byte source itself
read_u8(stream) ==
    IF stream = <<>>
    THEN [ok |-> FALSE, err |-> "UnexpectedEof", stream |-> stream]
    ELSE [ok |-> TRUE, value |-> Head(stream), stream |-> Tail(stream)]

----------------------------------------------------------------------------
(* src/huffman_coding.rs: the symbol alphabets *)

MAX_BITS == 15

Ok(v) == [ok |-> TRUE, value |-> v]
Err(e) == [ok |-> FALSE, err |-> e]

\* impl TryFrom<HuffmanCodeWord> for Value (the tests' symbol type)
Value_try_from(n) == Ok([t |-> "Value", n |-> n])

\* impl TryFrom<HuffmanCodeWord> for TreeCodeToken
TreeCodeToken_try_from(n) ==
    IF n <= 15 THEN Ok([t |-> "Length", len |-> n])
    ELSE IF n = 16 THEN Ok([t |-> "CopyPrev"])
    ELSE IF n = 17 THEN Ok([t |-> "RepeatZero", base |-> 3, extra_bits |-> 3])
    ELSE IF n = 18 THEN Ok([t |-> "RepeatZero", base |-> 11, extra_bits |-> 7])
    ELSE Err("try from TreeCodeToken error")

\* impl TryFrom<HuffmanCodeWord> for LitLenToken
LitLenToken_try_from(n) ==
    IF n <= 255 THEN Ok([t |-> "Literal", byte |-> n])
    ELSE IF n = 256 THEN Ok([t |-> "EndOfBlock"])
    ELSE IF n <= 264 THEN Ok([t |-> "Length", base |-> n - 254, extra_bits |-> 0])
    ELSE IF n <= 268 THEN Ok([t |-> "Length", base |-> 11 + 2 * (n - 265), extra_bits |-> 1])
    ELSE IF n <= 272 THEN Ok([t |-> "Length", base |-> 19 + 4 * (n - 269), extra_bits |-> 2])
    ELSE IF n <= 276 THEN Ok([t |-> "Length", base |-> 35 + 8 * (n - 273), extra_bits |-> 3])
    ELSE IF n <= 280 THEN Ok([t |-> "Length", base |-> 67 + 16 * (n - 277), extra_bits |-> 4])
    ELSE IF n <= 284 THEN Ok([t |-> "Length", base |-> 131 + 32 * (n - 281), extra_bits |-> 5])
    ELSE IF n = 285 THEN Ok([t |-> "Length", base |-> 258, extra_bits |-> 0])
    ELSE Err("try from LitLenToken error")

\* impl TryFrom<HuffmanCodeWord> for DistanceToken
DistanceToken_try_from(n) ==
    IF n <= 3 THEN Ok([t |-> "Distance", base |-> n + 1, extra_bits |-> 0])
    ELSE IF n <= 5 THEN Ok([t |-> "Distance", base |-> 5 + 2 * (n - 4), extra_bits |-> 1])
    ELSE IF n <= 7 THEN Ok([t |-> "Distance", base |-> 9 + 4 * (n - 6), extra_bits |-> 2])
    ELSE IF n <= 9 THEN Ok([t |-> "Distance", base |-> 17 + 8 * (n - 8), extra_bits |-> 3])
    ELSE IF n <= 11 THEN Ok([t |-> "Distance", base |-> 33 + 16 * (n - 10), extra_bits |-> 4])
    ELSE IF n <= 13 THEN Ok([t |-> "Distance", base |-> 65 + 32 * (n - 12), extra_bits |-> 5])
    ELSE IF n <= 15 THEN Ok([t |-> "Distance", base |-> 129 + 64 * (n - 14), extra_bits |-> 6])
    ELSE IF n <= 17 THEN Ok([t |-> "Distance", base |-> 257 + 128 * (n - 16), extra_bits |-> 7])
    ELSE IF n <= 19 THEN Ok([t |-> "Distance", base |-> 513 + 256 * (n - 18), extra_bits |-> 8])
    ELSE IF n <= 21 THEN Ok([t |-> "Distance", base |-> 1025 + 512 * (n - 20), extra_bits |-> 9])
    ELSE IF n <= 23 THEN Ok([t |-> "Distance", base |-> 2049 + 1024 * (n - 22), extra_bits |-> 10])
    ELSE IF n <= 25 THEN Ok([t |-> "Distance", base |-> 4097 + 2048 * (n - 24), extra_bits |-> 11])
    ELSE IF n <= 27 THEN Ok([t |-> "Distance", base |-> 8193 + 4096 * (n - 26), extra_bits |-> 12])
    ELSE IF n <= 29 THEN Ok([t |-> "Distance", base |-> 16385 + 8192 * (n - 28), extra_bits |-> 13])
    ELSE Err("try from DistanceToken error")

\* T::try_from(HuffmanCodeWord(n)) for the symbol type T
try_from(T, n) ==
    CASE T = "Value" -> Value_try_from(n)
      [] T = "TreeCodeToken" -> TreeCodeToken_try_from(n)
      [] T = "LitLenToken" -> LitLenToken_try_from(n)
      [] T = "DistanceToken" -> DistanceToken_try_from(n)

----------------------------------------------------------------------------
(* src/huffman_coding.rs: HuffmanCoding<T> *)

EmptyMap == [k \in {} |-> 0]

\* HashMap::insert
MapInsert(map, key, value) ==
    [k \in (DOMAIN map) \cup {key} |-> IF k = key THEN value ELSE map[k]]

\* HuffmanCoding::decode_symbol: Some(value) or None
decode_symbol(self, seq) ==
    IF seq \in DOMAIN self.map THEN [some |-> TRUE, value |-> self.map[seq]]
    ELSE [some |-> FALSE]

\* from_lengths, first loop: reject a length above MAX_BITS, count the others
count_lengths(code_lengths) ==
    IF \E i \in DOMAIN code_lengths : code_lengths[i] > MAX_BITS
    THEN Err("from_lengths error")
    ELSE Ok([b \in 0..MAX_BITS |->
                Cardinality({i \in DOMAIN code_lengths : code_lengths[i] = b})])

\* from_lengths, second loop: code = (code + bl_count[bits - 1]) << 1
RECURSIVE first_codes(_, _, _, _)
first_codes(bl_count, bits, code, next_code) ==
    IF bits > MAX_BITS THEN next_code
    ELSE LET c == (code + bl_count[bits - 1]) * 2
         IN first_codes(bl_count, bits + 1, c, [next_code EXCEPT ![bits] = c])

\* from_lengths, third loop, one symbol of nonzero length: try_from may
\* fail (returned with ?); the conversion of next_code to u16 is unwrapped
\* and aborts when it does not fit
insert_code(len, st, value) ==
    IF ~value.ok THEN [kind |-> "err", err |-> value.err]
    ELSE IF st.next_code[len] > 65535 THEN [kind |-> "panic"]
    ELSE [kind |-> "ok",
          next_code |-> [st.next_code EXCEPT ![len] = @ + 1],
          map |-> MapInsert(st.map, BitSequence(st.next_code[len], len),
                            value.value)]

\* from_lengths, third loop, one iteration: symbol n = i - 1
assign_code(T, code_lengths, i, st) ==
    IF code_lengths[i] = 0 THEN st
    ELSE insert_code(code_lengths[i], st, try_from(T, i - 1))

\* from_lengths, third loop: the iterations lo..hi in order, stopping at the
\* first that fails (the range is split in halves to keep the nesting low)
RECURSIVE assign_codes(_, _, _, _, _)
assign_codes(T, code_lengths, lo, hi, st) ==
    IF st.kind # "ok" \/ lo > hi THEN st
    ELSE IF lo = hi THEN assign_code(T, code_lengths, lo, st)
    ELSE assign_codes(T, code_lengths, ((lo + hi) \div 2) + 1, hi,
                      assign_codes(T, code_lengths, lo, (lo + hi) \div 2, st))

\* from_lengths, after the third loop: Ok(HuffmanCoding::new(map))
from_lengths_assigned(r) ==
    IF r.kind = "ok" THEN [kind |-> "ok", map |-> r.map] ELSE r

\* from_lengths, after the first loop: bl_count[0] = 0, the first codes, the
\* assignment
from_lengths_counted(T, code_lengths, counted) ==
    IF ~counted.ok THEN [kind |-> "err", err |-> counted.err]
    ELSE from_lengths_assigned(
             assign_codes(T, code_lengths, 1, Len(code_lengths),
                 [kind |-> "ok",
                  next_code |-> first_codes([counted.value EXCEPT ![0] = 0], 1, 0,
                                            [b \in 0..MAX_BITS |-> 0]),
                  map |-> EmptyMap]))

\* HuffmanCoding::from_lengths
from_lengths(T, code_lengths) ==
    from_lengths_counted(T, code_lengths, count_lengths(code_lengths))

\* the bit just read put on the wrong side of the bits read so far
push_bit_front(bit_sequence, bit) == concat(bit, bit_sequence)

\* read_symbol: bit_sequence = bit_sequence.concat(bit)
push_bit(bit_sequence, bit) == concat(bit_sequence, bit)

RECURSIVE read_symbol_loop(_, _, _, _)

\* read_symbol, the lookup: return the value on a match, else go on
read_symbol_match(self, reader, seq, i) ==
    IF seq \in DOMAIN self.map
    THEN [ok |-> TRUE, value |-> self.map[seq], reader |-> reader]
    ELSE read_symbol_loop(self, reader, seq, i + 1)

\* read_symbol, one bit read (? on read_bits)
read_symbol_bit(self, bit_sequence, i, bit) ==
    IF ~bit.ok THEN [ok |-> FALSE, err |-> bit.err, reader |-> bit.reader]
    ELSE read_symbol_match(self, bit.reader, push_bit(bit_sequence, bit.value), i)

\* the for loop of read_symbol: one bit at a time, at most MAX_BITS bits
read_symbol_loop(self, reader, bit_sequence, i) ==
    IF i >= MAX_BITS
    THEN [ok |-> FALSE, err |-> "read_symbol 2 type error", reader |-> reader]
    ELSE read_symbol_bit(self, bit_sequence, i, read_bits(reader, 1))

\* HuffmanCoding::read_symbol
read_symbol(self, reader) == read_symbol_loop(self, reader, BitSequence(0, 0), 0)

----------------------------------------------------------------------------
(* CRC-32/ISO-HDLC (crc::CRC_32_ISO_HDLC): reflected polynomial            *)
(* 0xEDB88320, initial register 0xFFFFFFFF, final xor 0xFFFFFFFF.          *)
(* A u32 is kept as its two 16-bit halves.                                 *)

U32(hi, lo) == [hi |-> hi, lo |-> lo]

\* a small natural number as u32
ToU32(n) == U32((n \div 65536) % 65536, n % 65536)

\* exclusive or of two bits, of two 4-bit and of two 16-bit numbers
XorBit(a, b) == (a + b) % 2

XorNibble ==
    [a \in 0..15 |-> [b \in 0..15 |->
        XorBit(a % 2, b % 2)
        + 2 * XorBit((a \div 2) % 2, (b \div 2) % 2)
        + 4 * XorBit((a \div 4) % 2, (b \div 4) % 2)
        + 8 * XorBit(a \div 8, b \div 8)]]

Xor(a, b) ==
    XorNibble[a % 16][b % 16]
    + 16 * XorNibble[(a \div 16) % 16][(b \div 16) % 16]
    + 256 * XorNibble[(a \div 256) % 16][(b \div 256) % 16]
    + 4096 * XorNibble[(a \div 4096) % 16][(b \div 4096) % 16]

Xor32(x, y) == U32(Xor(x.hi, y.hi), Xor(x.lo, y.lo))

Shr32(x) == U32(x.hi \div 2, (x.lo \div 2) + (x.hi % 2) * 32768)

Shr32by8(x) == U32(x.hi \div 256, (x.lo \div 256) + (x.hi % 256) * 256)

CrcPoly == U32(60856, 33568)     \* 0xEDB8 8320
CrcInit == U32(65535, 65535)     \* 0xFFFF FFFF

\* k steps of the reflected shift register
RECURSIVE crc_shift(_, _)
crc_shift(reg, k) ==
    IF k = 0 THEN reg
    ELSE crc_shift(IF reg.lo % 2 = 1 THEN Xor32(Shr32(reg), CrcPoly) ELSE Shr32(reg),
                   k - 1)

\* the byte table of the crc crate
CrcTable == [i \in 0..255 |-> crc_shift(U32(0, i), 8)]

\* Digest::update, one byte: crc = table[(crc ^ byte) & 0xff] ^ (crc >> 8),
\* as a function of the two halves of the register and the byte
crc_step ==
    [hi \in 0..65535, lo \in 0..65535, byte \in 0..255 |->
        Xor32(CrcTable[Xor(lo % 256, byte)], Shr32by8(U32(hi, lo)))]

\* Digest::update, one byte
digest_byte(reg, byte) == crc_step[reg.hi, reg.lo, byte]

\* Digest::update: byte by byte in order (the byte string is split in
\* halves to keep the nesting low)
RECURSIVE digest_update(_, _)
digest_update(reg, bytes) ==
    IF bytes = <<>> THEN reg
    ELSE IF Len(bytes) = 1 THEN digest_byte(reg, bytes[1])
    ELSE digest_update(digest_update(reg, SubSeq(bytes, 1, Len(bytes) \div 2)),
                       SubSeq(bytes, (Len(bytes) \div 2) + 1, Len(bytes)))

\* Digest::finalize
digest_finalize(reg) == Xor32(reg, CrcInit)

----------------------------------------------------------------------------
(* The byte sink W: Write.  A write accepts a prefix of what it is offered. *)
(* A bounded sink takes at most `chunk` bytes per call and at most `cap`    *)
(* bytes in all (the tests' &mut [u8]); a growing one (Vec<u8>) takes all.  *)

Sink(cap, chunk) ==
    [data |-> <<>>, bounded |-> TRUE, cap |-> cap, chunk |-> chunk, flushed |-> 0]

VecSink ==
    [data |-> <<>>, bounded |-> FALSE, cap |-> 0, chunk |-> 0, flushed |-> 0]

\* inner.flush(): everything accepted so far is flushed
sink_flush(inner) == [inner EXCEPT !.flushed = Len(inner.data)]

sink_room(inner) == Min(inner.chunk, inner.cap - Len(inner.data))

\* the number of bytes inner.write(buf) accepts
sink_accepts(inner, buf) ==
    IF inner.bounded THEN Min(Len(buf), sink_room(inner)) ELSE Len(buf)

\* inner.write(buf): Ok(number of bytes accepted)
sink_write(inner, buf) ==
    [n |-> sink_accepts(inner, buf),
     inner |-> [inner EXCEPT !.data = @ \o SubSeq(buf, 1, sink_accepts(inner, buf))]]

----------------------------------------------------------------------------
(* src/tracking_writer.rs.  The writer carries its window limit so that it *)
(* can be run with a small window; decompress builds it with HISTORY_SIZE. *)

HISTORY_SIZE == 32768

TrackingWriterNew(inner, history_size) ==
    [inner |-> inner, buffer |-> <<>>, byte_counter |-> 0, digest |-> CrcInit,
     history_size |-> history_size]

\* a variant that never evicts
drain_never(buffer, history_size) == buffer

\* buffer.drain(0..buffer.len() - HISTORY_SIZE) when buffer.len() >= HISTORY_SIZE
drain(buffer, history_size) ==
    IF Len(buffer) >= history_size
    THEN SubSeq(buffer, Len(buffer) - history_size + 1, Len(buffer))
    ELSE buffer

\* a variant that counts what was offered instead of what was accepted
tw_write_offered(self, buf, w) ==
    [n |-> w.n,
     writer |-> [self EXCEPT
         !.inner = w.inner,
         !.byte_counter = @ + Len(buf),
         !.digest = digest_update(@, SubSeq(buf, 1, w.n)),
         !.buffer = drain(@ \o SubSeq(buf, 1, w.n), self.history_size)]]

\* TrackingWriter::write after inner.write(buf)? returned w.n: the counter,
\* the digest and the window take the accepted prefix
tw_write_accepted(self, buf, w) ==
    [n |-> w.n,
     writer |-> [self EXCEPT
         !.inner = w.inner,
         !.byte_counter = @ + w.n,
         !.digest = digest_update(@, SubSeq(buf, 1, w.n)),
         !.buffer = drain(@ \o SubSeq(buf, 1, w.n), self.history_size)]]

\* impl Write for TrackingWriter: write
tw_write(self, buf) == tw_write_accepted(self, buf, sink_write(self.inner, buf))

RECURSIVE write_all(_, _)

\* write_all after one write: Ok(0) is the error WriteZero, else the rest
write_all_rest(buf, w) ==
    IF w.n = 0 THEN [ok |-> FALSE, err |-> "WriteZero", writer |-> w.writer]
    ELSE write_all(w.writer, SubSeq(buf, w.n + 1, Len(buf)))

\* Write::write_all over TrackingWriter::write: call write until the buffer
\* is empty
write_all(self, buf) ==
    IF buf = <<>> THEN [ok |-> TRUE, writer |-> self]
    ELSE write_all_rest(buf, tw_write(self, buf))

\* impl Write for TrackingWriter: flush
tw_flush(self) == [self EXCEPT !.inner = sink_flush(@)]

\* TrackingWriter::clear
clear(self) ==
    [self EXCEPT !.buffer = <<>>, !.byte_counter = 0, !.digest = CrcInit]

\* a variant that copies the range once, without repeating it
cycle_take_once(seg, len) == seg

\* buffer.range(len - dist .. min(len, len - dist + len)).copied().cycle().take(len)
cycle_take(seg, len) ==
    IF seg = <<>> THEN <<>>
    ELSE [i \in 1..len |-> seg[((i - 1) % Len(seg)) + 1]]

\* a variant that checks the distance against the window limit only
wp_in_range_limit(self, dist) == dist <= self.history_size

\* the guard of write_previous: the error branch is buffer.len() < dist
wp_in_range(self, dist) == ~(Len(self.buffer) < dist)

\* buffer.range(len - dist .. min(len, len - dist + len))
wp_range(buffer, dist, len) ==
    SubSeq(buffer,
           (IF Len(buffer) - dist < 0 THEN 0 ELSE Len(buffer) - dist) + 1,
           Min(Len(buffer), Len(buffer) - dist + len))

\* TrackingWriter::write_previous
write_previous(self, dist, len) ==
    IF ~wp_in_range(self, dist)
    THEN [ok |-> FALSE, err |-> "bad len in write previous", writer |-> self]
    ELSE write_all(self, cycle_take(wp_range(self.buffer, dist, len), len))

\* TrackingWriter::byte_count: the counter as u32
byte_count(self) == ToU32(self.byte_counter)

\* TrackingWriter::crc32
crc32(self) == digest_finalize(self.digest)

----------------------------------------------------------------------------
(* Reads made on the byte source itself (std::io::Read, byteorder)         *)

\* Read::read_exact: n bytes or UnexpectedEof
read_exact(stream, n) ==
    IF Len(stream) < n
    THEN [ok |-> FALSE, err |-> "UnexpectedEof", stream |-> <<>>]
    ELSE [ok |-> TRUE, value |-> SubSeq(stream, 1, n),
          stream |-> SubSeq(stream, n + 1, Len(stream))]

\* the little-endian u16 of a two-byte read
u16_le(r) == IF r.ok THEN [r EXCEPT !.value = r.value[1] + 256 * r.value[2]] ELSE r

\* ReadBytesExt::read_u16::<LittleEndian>
read_u16_le(stream) == u16_le(read_exact(stream, 2))

\* the little-endian u32 of a four-byte read
u32_le(r) ==
    IF r.ok
    THEN [r EXCEPT !.value = U32(r.value[3] + 256 * r.value[4],
                                 r.value[1] + 256 * r.value[2])]
    ELSE r

\* ReadBytesExt::read_u32::<LittleEndian>
read_u32_le(stream) == u32_le(read_exact(stream, 4))

\* BufRead::read_until(delim): the bytes up to and including the delimiter,
\* or everything that is left when the source ends first (no error)
RECURSIVE read_until(_, _, _)
read_until(stream, delim, buffer) ==
    IF stream = <<>> THEN [value |-> buffer, stream |-> stream]
    ELSE IF Head(stream) = delim
         THEN [value |-> Append(buffer, delim), stream |-> Tail(stream)]
         ELSE read_until(Tail(stream), delim, Append(buffer, Head(stream)))

\* String::from_utf8: is the byte string well-formed UTF-8
RECURSIVE from_utf8_ok(_)
from_utf8_ok(b) ==
    LET Cont(i) == i <= Len(b) /\ b[i] >= 128 /\ b[i] <= 191
        In(i, lo, hi) == i <= Len(b) /\ b[i] >= lo /\ b[i] <= hi
        Rest(n) == from_utf8_ok(SubSeq(b, n + 1, Len(b)))
    IN IF b = <<>> THEN TRUE
       ELSE IF b[1] <= 127 THEN Rest(1)
       ELSE IF b[1] >= 194 /\ b[1] <= 223 THEN Cont(2) /\ Rest(2)
       ELSE IF b[1] = 224 THEN In(2, 160, 191) /\ Cont(3) /\ Rest(3)
       ELSE IF b[1] = 237 THEN In(2, 128, 159) /\ Cont(3) /\ Rest(3)
       ELSE IF b[1] >= 225 /\ b[1] <= 239 THEN Cont(2) /\ Cont(3) /\ Rest(3)
       ELSE IF b[1] = 240 THEN In(2, 144, 191) /\ Cont(3) /\ Cont(4) /\ Rest(4)
       ELSE IF b[1] >= 241 /\ b[1] <= 243 THEN Cont(2) /\ Cont(3) /\ Cont(4) /\ Rest(4)
       ELSE IF b[1] = 244 THEN In(2, 128, 143) /\ Cont(3) /\ Cont(4) /\ Rest(4)
       ELSE FALSE

----------------------------------------------------------------------------
(* src/huffman_coding.rs: the tables of a block.  A result is              *)
(* [kind |-> "ok" | "err" | "panic", ...]; "panic" is an aborted process.  *)

SPECIAL_ORDER == <<16, 17, 18, 0, 8, 7, 9, 6, 10, 5, 11, 4, 12, 3, 13, 2, 14, 1, 15>>

Repeat(x, n) == [i \in 1..n |-> x]

\* decode_fixed_trees, the second from_lengths(..)?
fixed_distance(l, d) ==
    IF d.kind # "ok" THEN d
    ELSE [kind |-> "ok", letlentoken |-> l, distancetoken |-> d]

\* decode_fixed_trees, the first from_lengths(..)?
fixed_letlen(l) ==
    IF l.kind # "ok" THEN l
    ELSE fixed_distance(l, from_lengths("DistanceToken", Repeat(5, 32)))

\* decode_fixed_trees: the literal/length table is built first
decode_fixed_trees ==
    fixed_letlen(from_lengths("LitLenToken",
        Repeat(8, 144) \o Repeat(9, 112) \o Repeat(7, 24) \o Repeat(8, 8)))

RECURSIVE read_code_lengths(_, _, _, _)

\* decode_codelen_token, one iteration: cl[*pos] = read_bits(3)?.bits() as u8
store_code_length(k, count, cl, r) ==
    IF ~r.ok THEN [ok |-> FALSE, err |-> r.err, reader |-> r.reader]
    ELSE read_code_lengths(r.reader, k + 1, count,
             [cl EXCEPT ![SPECIAL_ORDER[k] + 1] = r.value.bits % 256])

\* decode_codelen_token, the loop over SPECIAL_ORDER[..hclen + 4]
read_code_lengths(reader, k, count, cl) ==
    IF k > count THEN [ok |-> TRUE, cl |-> cl, reader |-> reader]
    ELSE store_code_length(k, count, cl, read_bits(reader, 3))

\* a table built by from_lengths, with the reader it was decoded from
built_table(c, reader) ==
    IF c.kind = "ok" THEN [kind |-> "ok", coding |-> c, reader |-> reader]
    ELSE IF c.kind = "err" THEN [kind |-> "err", err |-> <<c.err>>, reader |-> reader]
    ELSE [kind |-> "panic", reader |-> reader]

\* decode_codelen_token, after the loop: HuffmanCoding::from_lengths(&cl)
codelen_table(r) ==
    IF ~r.ok THEN [kind |-> "err", err |-> <<r.err>>, reader |-> r.reader]
    ELSE built_table(from_lengths("TreeCodeToken", r.cl), r.reader)

\* decode_codelen_token
decode_codelen_token(reader, hclen) ==
    codelen_table(read_code_lengths(reader, 1, hclen + 4, Repeat(0, 19)))

\* the for loops of CopyPrev and RepeatZero, count >= 3 iterations:
\* vec[pos] = vec[pos - i - 1] (copy; pos grows with i, so this is the entry
\* before the run) or vec[pos] = 0; an index outside the vector aborts
fill_run(vec, pos, count, copy) ==
    IF copy /\ pos = 0 THEN [kind |-> "panic"]
    ELSE IF pos + count > Len(vec) THEN [kind |-> "panic"]
    ELSE [kind |-> "ok", pos |-> pos + count,
          vec |-> [k \in DOMAIN vec |->
                      IF pos < k /\ k <= pos + count
                      THEN (IF copy THEN vec[pos] ELSE 0)
                      ELSE vec[k]]]

\* a run written by CopyPrev or RepeatZero
run_filled(reader, f) ==
    IF f.kind = "panic" THEN [kind |-> "panic", reader |-> reader]
    ELSE [kind |-> "ok", reader |-> reader, pos |-> f.pos, vec |-> f.vec]

\* CopyPrev and RepeatZero, after the extra bits were read (? on read_bits)
run_length(st, base, copy, e) ==
    IF ~e.ok THEN [kind |-> "err", err |-> <<e.err>>, reader |-> e.reader]
    ELSE run_filled(e.reader, fill_run(st.vec, st.pos, base + e.value.bits, copy))

\* match token: Length(len), CopyPrev (2 extra bits, base 3) or
\* RepeatZero { base, extra_bits }
lengths_token(st, s) ==
    IF ~s.ok THEN [kind |-> "err", err |-> <<s.err>>, reader |-> s.reader]
    ELSE IF s.value.t = "Length"
    THEN IF st.pos >= Len(st.vec) THEN [kind |-> "panic", reader |-> s.reader]
         ELSE [kind |-> "ok", reader |-> s.reader, pos |-> st.pos + 1,
               vec |-> [st.vec EXCEPT ![st.pos + 1] = s.value.len]]
    ELSE IF s.value.t = "CopyPrev"
    THEN run_length(st, 3, TRUE, read_bits(s.reader, 2))
    ELSE run_length(st, s.value.base, FALSE, read_bits(s.reader, s.value.extra_bits))

\* one iteration of the while loop of decode_letlen_token and of
\* decode_distance_token: read a token, write its entries
decode_lengths_step(cl_huffman, st) ==
    lengths_token(st, read_symbol(cl_huffman, st.reader))

\* the while loop: iterations until pos reaches the number of entries asked
\* for or one fails; at most `fuel` of them (every iteration advances pos)
RECURSIVE decode_lengths_loop(_, _, _, _)
decode_lengths_loop(cl_huffman, st, wanted, fuel) ==
    IF st.kind # "ok" \/ st.pos >= wanted \/ fuel = 0 THEN st
    ELSE IF fuel = 1 THEN decode_lengths_step(cl_huffman, st)
    ELSE decode_lengths_loop(cl_huffman,
             decode_lengths_loop(cl_huffman, st, wanted, fuel \div 2),
             wanted, fuel - (fuel \div 2))

\* a table built by from_lengths from a decoded length vector
built_from_vec(c, l) ==
    IF c.kind = "ok"
    THEN [kind |-> "ok", coding |-> c, vec |-> l.vec, pos |-> l.pos,
          reader |-> l.reader]
    ELSE IF c.kind = "err" THEN [kind |-> "err", err |-> <<c.err>>, reader |-> l.reader]
    ELSE [kind |-> "panic", reader |-> l.reader]

\* what decode_letlen_token and decode_distance_token do after the loop
build_from_decoded(T, l) ==
    IF l.kind # "ok" THEN l ELSE built_from_vec(from_lengths(T, l.vec), l)

\* decode_letlen_token
decode_letlen_token(reader, hlit, cl_huffman) ==
    build_from_decoded("LitLenToken",
        decode_lengths_loop(cl_huffman,
            [kind |-> "ok", reader |-> reader, pos |-> 0, vec |-> Repeat(0, 286)],
            hlit + 257, hlit + 257))

\* decode_distance_token
decode_distance_token(reader, hdist, cl_huffman) ==
    build_from_decoded("DistanceToken",
        decode_lengths_loop(cl_huffman,
            [kind |-> "ok", reader |-> reader, pos |-> 0, vec |-> Repeat(0, 32)],
            hdist + 1, hdist + 1))

\* a failure of decode_dynamic_tree, with the call of it that failed
failed_in(stage, x) ==
    IF x.kind = "err"
    THEN [kind |-> "err", err |-> x.err, reader |-> x.reader, stage |-> stage]
    ELSE [kind |-> "panic", reader |-> x.reader, stage |-> stage]

\* decode_dynamic_tree: the two tables and what they were decoded from
dynamic_tables(hlit, hdist, l, d) ==
    IF d.kind # "ok" THEN failed_in("decode_distance_token", d)
    ELSE [kind |-> "ok", letlentoken |-> l.coding,
          distancetoken |-> d.coding, reader |-> d.reader,
          hlit |-> hlit, hdist |-> hdist,
          letlen_lengths |-> l.vec, letlen_pos |-> l.pos,
          distance_lengths |-> d.vec, distance_pos |-> d.pos]

\* decode_dynamic_tree: decode_distance_token(bit_reader, hdist, &cl_huffman)?
dynamic_distance(hlit, hdist, cl, l) ==
    IF l.kind # "ok" THEN failed_in("decode_letlen_token", l)
    ELSE dynamic_tables(hlit, hdist, l,
                        decode_distance_token(l.reader, hdist, cl.coding))

\* decode_dynamic_tree: decode_letlen_token(bit_reader, hlit, &cl_huffman)?
dynamic_letlen(hlit, hdist, cl) ==
    IF cl.kind # "ok" THEN failed_in("decode_codelen_token", cl)
    ELSE dynamic_distance(hlit, hdist, cl,
                          decode_letlen_token(cl.reader, hlit, cl.coding))

\* decode_dynamic_tree: hclen = read_bits(4)?, then decode_codelen_token
dynamic_hclen(hlit, hdist, hclen) ==
    IF ~hclen.ok
    THEN [kind |-> "err", err |-> <<hclen.err>>, reader |-> hclen.reader,
          stage |-> "read_bits"]
    ELSE dynamic_letlen(hlit, hdist,
                        decode_codelen_token(hclen.reader, hclen.value.bits))

\* decode_dynamic_tree: hdist = read_bits(5)?
dynamic_hdist(hlit, hdist) ==
    IF ~hdist.ok
    THEN [kind |-> "err", err |-> <<hdist.err>>, reader |-> hdist.reader,
          stage |-> "read_bits"]
    ELSE dynamic_hclen(hlit, hdist.value.bits, read_bits(hdist.reader, 4))

\* decode_dynamic_tree: hlit = read_bits(5)?
dynamic_hlit(hlit) ==
    IF ~hlit.ok
    THEN [kind |-> "err", err |-> <<hlit.err>>, reader |-> hlit.reader,
          stage |-> "read_bits"]
    ELSE dynamic_hdist(hlit.value.bits, read_bits(hlit.reader, 5))

\* decode_dynamic_tree
decode_dynamic_tree(reader) == dynamic_hlit(read_bits(reader, 5))

----------------------------------------------------------------------------
(* src/deflate.rs.  A DeflateReader is [bit_reader, writer]; an error is   *)
(* the chain of its messages, outermost context first.                     *)

DeflateReaderNew(br, w) == [bit_reader |-> br, writer |-> w]

DOk(self, value) == [kind |-> "ok", value |-> value, self |-> self]
DErr(self, err) == [kind |-> "err", err |-> err, self |-> self]
DPanic(self) == [kind |-> "panic", self |-> self]

\* LitLenToken::Literal: self.writer.write_u8(symbol)?
token_written(self, w) ==
    IF ~w.ok THEN DErr([self EXCEPT !.writer = w.writer], <<w.err>>)
    ELSE DOk([self EXCEPT !.writer = w.writer], FALSE)

\* LitLenToken::Length: self.writer.write_previous(dist.into(), len.into())?
token_copied(reader, w) ==
    IF ~w.ok
    THEN DErr([bit_reader |-> reader, writer |-> w.writer],
              IF w.err = "WriteZero" THEN <<"write all failed", w.err>>
              ELSE <<w.err>>)
    ELSE DOk([bit_reader |-> reader, writer |-> w.writer], FALSE)

\* LitLenToken::Length: dist = read_bits(distancetoken.extra_bits)?.bits()
\* + distancetoken.base
token_dist_bits(self, len, base, x) ==
    IF ~x.ok THEN DErr([self EXCEPT !.bit_reader = x.reader], <<x.err>>)
    ELSE token_copied(x.reader,
             write_previous(self.writer, (x.value.bits + base) % 65536, len))

\* LitLenToken::Length: distancetoken.read_symbol(&mut self.bit_reader)?
token_distance(self, len, t) ==
    IF ~t.ok THEN DErr([self EXCEPT !.bit_reader = t.reader], <<t.err>>)
    ELSE token_dist_bits(self, len, t.value.base,
                         read_bits(t.reader, t.value.extra_bits))

\* LitLenToken::Length: len = read_bits(extra_bits)?.bits() + base
token_len_bits(self, distancetoken, base, e) ==
    IF ~e.ok THEN DErr([self EXCEPT !.bit_reader = e.reader], <<e.err>>)
    ELSE token_distance(self, (e.value.bits + base) % 65536,
                        read_symbol(distancetoken, e.reader))

\* match letlentoken.read_symbol(&mut self.bit_reader)?; value is TRUE once
\* end-of-block was read
token_litlen(self, distancetoken, s) ==
    IF ~s.ok THEN DErr([self EXCEPT !.bit_reader = s.reader], <<s.err>>)
    ELSE IF s.value.t = "Literal"
    THEN token_written([self EXCEPT !.bit_reader = s.reader],
                       write_all(self.writer, <<s.value.byte>>))
    ELSE IF s.value.t = "EndOfBlock"
    THEN DOk([self EXCEPT !.bit_reader = s.reader], TRUE)
    ELSE token_len_bits(self, distancetoken, s.value.base,
                        read_bits(s.reader, s.value.extra_bits))

\* one iteration of the loop of decode_by_tokens
decode_token(self, letlentoken, distancetoken) ==
    token_litlen(self, distancetoken, read_symbol(letlentoken, self.bit_reader))

\* the loop of decode_by_tokens: iterations until end-of-block or an error;
\* at most `fuel` of them
RECURSIVE decode_tokens_loop(_, _, _, _)
decode_tokens_loop(r, letlentoken, distancetoken, fuel) ==
    IF r.kind # "ok" \/ r.value \/ fuel = 0 THEN r
    ELSE IF fuel = 1 THEN decode_token(r.self, letlentoken, distancetoken)
    ELSE decode_tokens_loop(
             decode_tokens_loop(r, letlentoken, distancetoken, fuel \div 2),
             letlentoken, distancetoken, fuel - (fuel \div 2))

\* DeflateReader::decode_by_tokens.  Every iteration reads at least one bit,
\* so the bits left in the source bound the number of iterations.
decode_by_tokens(self, letlentoken, distancetoken) ==
    decode_tokens_loop(DOk(self, FALSE), letlentoken, distancetoken,
                       8 * Len(self.bit_reader.stream) + 8)

\* the DeflateReader with its byte source, borrowed at the boundary, at st
with_stream(self, st) ==
    [self EXCEPT !.bit_reader =
        [borrow_reader_from_boundary(self.bit_reader) EXCEPT !.stream = st]]

\* Uncompressed: self.writer.write_all(&buffer).context("uncompressed write")?
stored_written(self, is_final, w) ==
    IF ~w.ok
    THEN DErr([self EXCEPT !.writer = w.writer], <<"uncompressed write", w.err>>)
    ELSE DOk([self EXCEPT !.writer = w.writer], is_final)

\* Uncompressed: reader.read_exact(&mut buffer).context("uncompressed read")?
stored_data(self, is_final, buffer) ==
    IF ~buffer.ok
    THEN DErr(with_stream(self, buffer.stream), <<"uncompressed read", buffer.err>>)
    ELSE stored_written(with_stream(self, buffer.stream), is_final,
                        write_all(self.writer, buffer.value))

\* a variant that takes any NLEN
stored_nlen_any(self, is_final, len, nlen) ==
    IF ~nlen.ok THEN DErr(with_stream(self, nlen.stream), <<"NLEN", nlen.err>>)
    ELSE stored_data(self, is_final, read_exact(nlen.stream, len))

\* Uncompressed: nlen, and the check len != !nlen
stored_nlen(self, is_final, len, nlen) ==
    IF ~nlen.ok THEN DErr(with_stream(self, nlen.stream), <<"NLEN", nlen.err>>)
    ELSE IF len # 65535 - nlen.value
    THEN DErr(with_stream(self, nlen.stream), <<"nlen check failed">>)
    ELSE stored_data(self, is_final, read_exact(nlen.stream, len))

\* Uncompressed: len
stored_len(self, is_final, len) ==
    IF ~len.ok THEN DErr(with_stream(self, len.stream), <<"LEN", len.err>>)
    ELSE stored_nlen(self, is_final, len.value, read_u16_le(len.stream))

\* read_data, CompressionType::Uncompressed
read_stored(self, is_final) ==
    stored_len(self, is_final,
               read_u16_le(borrow_reader_from_boundary(self.bit_reader).stream))

\* match self.decode_by_tokens(..): Ok(()) => Ok(is_final), _ => bail!(msg);
\* the error of decode_by_tokens is replaced by a new one
tokens_result(r, is_final, msg) ==
    IF r.kind = "ok" THEN DOk(r.self, is_final)
    ELSE IF r.kind = "panic" THEN r
    ELSE DErr(r.self, <<msg>>)

\* FixedTree, after decode_fixed_trees().context("fixed tree failed")?
fixed_tables(self, is_final, t) ==
    IF t.kind = "err" THEN DErr(self, <<"fixed tree failed", t.err>>)
    ELSE IF t.kind = "panic" THEN DPanic(self)
    ELSE tokens_result(decode_by_tokens(self, t.letlentoken, t.distancetoken),
                       is_final, "parse after fixed tree failed")

\* read_data, CompressionType::FixedTree
read_fixed(self, is_final) == fixed_tables(self, is_final, decode_fixed_trees)

\* DynamicTree, after decode_dynamic_tree(..).context("dynamic tree failed")?
dynamic_tree(self, is_final, t) ==
    IF t.kind = "err"
    THEN DErr([self EXCEPT !.bit_reader = t.reader], <<"dynamic tree failed">> \o t.err)
    ELSE IF t.kind = "panic" THEN DPanic([self EXCEPT !.bit_reader = t.reader])
    ELSE tokens_result(decode_by_tokens([self EXCEPT !.bit_reader = t.reader],
                                        t.letlentoken, t.distancetoken),
                       is_final, "parse after dynamic tree failed")

\* read_data, CompressionType::DynamicTree
read_dynamic(self, is_final) ==
    dynamic_tree(self, is_final, decode_dynamic_tree(self.bit_reader))

\* DeflateReader::read_data
read_data(self, block_header) ==
    CASE block_header.compression_type = "Uncompressed" ->
             read_stored(self, block_header.is_final)
      [] block_header.compression_type = "FixedTree" ->
             read_fixed(self, block_header.is_final)
      [] block_header.compression_type = "DynamicTree" ->
             read_dynamic(self, block_header.is_final)
      [] OTHER -> DErr(self, <<"unsupported block type">>)

\* next_block: match btype
CompressionType(btype) ==
    CASE btype = 0 -> "Uncompressed"
      [] btype = 1 -> "FixedTree"
      [] btype = 2 -> "DynamicTree"
      [] btype = 3 -> "Reserved"

\* next_block: btype = read_bits(2).context("btype read")?, then read_data
block_btype(self, bfinal, btype) ==
    IF ~btype.ok
    THEN DErr([self EXCEPT !.bit_reader = btype.reader], <<"btype read", btype.err>>)
    ELSE read_data([self EXCEPT !.bit_reader = btype.reader],
                   [is_final |-> bfinal # 0,
                    compression_type |-> CompressionType(btype.value.bits)])

\* next_block: bfinal = read_bits(1).context("bfinal read")?
block_bfinal(self, bfinal) ==
    IF ~bfinal.ok
    THEN DErr([self EXCEPT !.bit_reader = bfinal.reader], <<"bfinal read", bfinal.err>>)
    ELSE block_btype(self, bfinal.value.bits, read_bits(bfinal.reader, 2))

\* DeflateReader::next_block
next_block(self) == block_bfinal(self, read_bits(self.bit_reader, 1))

\* DeflateReader::get_input
get_input(self) == [self EXCEPT !.bit_reader = borrow_reader_from_boundary(@)]

\* DeflateReader::output: flush, then clear
output(self) == [self EXCEPT !.writer = clear(tw_flush(@))]

\* a variant that compares the CRC only
check_crc32_only(self, crc, isize) ==
    IF crc # crc32(self.writer) THEN Err(<<"crc32 check failed">>)
    ELSE Ok(TRUE)

\* DeflateReader::check_crc32_and_isize
check_crc32_and_isize(self, crc, isize) ==
    IF crc # crc32(self.writer) THEN Err(<<"crc32 check failed">>)
    ELSE IF isize # byte_count(self.writer) THEN Err(<<"length check failed">>)
    ELSE Ok(TRUE)

----------------------------------------------------------------------------
(* src/gzip.rs *)

ID1 == 31
ID2 == 139
CM_DEFLATE == 8
FTEXT_OFFSET == 0
FHCRC_OFFSET == 1
FEXTRA_OFFSET == 2
FNAME_OFFSET == 3
FCOMMENT_OFFSET == 4

\* MemberFlags::bit
bit(flags, n) == (flags \div Pow2(n)) % 2 # 0

\* MemberFlags::set_bit
set_bit(flags, n, value) ==
    IF value THEN (IF bit(flags, n) THEN flags ELSE flags + Pow2(n))
    ELSE (IF bit(flags, n) THEN flags - Pow2(n) ELSE flags)

None == [some |-> FALSE]
Some(v) == [some |-> TRUE, value |-> v]

\* MemberHeader::flags: the flag byte rebuilt from the parsed fields
flags(self) ==
    set_bit(set_bit(set_bit(set_bit(set_bit(0,
        FTEXT_OFFSET, self.is_text),
        FHCRC_OFFSET, self.has_crc),
        FEXTRA_OFFSET, self.extra.some),
        FNAME_OFFSET, self.name.some),
        FCOMMENT_OFFSET, self.comment.some)

\* u32::to_le_bytes
to_le_bytes32(x) == <<x.lo % 256, x.lo \div 256, x.hi % 256, x.hi \div 256>>

\* crc16: if let Some(extra): the length as u16, then the bytes
crc_extra(self, digest) ==
    IF self.extra.some
    THEN digest_update(
             digest_update(digest, <<Len(self.extra.value) % 256,
                                     (Len(self.extra.value) \div 256) % 256>>),
             self.extra.value)
    ELSE digest

\* crc16: if let Some(name), if let Some(comment): the bytes, then a 0
crc_string(field, digest) ==
    IF field.some THEN digest_update(digest_update(digest, field.value), <<0>>)
    ELSE digest

\* crc16: the three updates of the fixed fields
crc_fixed(self) ==
    digest_update(
        digest_update(
            digest_update(CrcInit, <<ID1, ID2, self.compression_method, flags(self)>>),
            to_le_bytes32(self.modification_time)),
        <<self.extra_flags, self.os>>)

\* MemberHeader::crc16: the low 16 bits of the CRC-32 of the header as
\* rebuilt from the parsed fields
crc16(self) ==
    digest_finalize(
        crc_string(self.comment,
            crc_string(self.name, crc_extra(self, crc_fixed(self))))).lo

GErr(err, reader) == [kind |-> "err", err |-> err, reader |-> reader]

\* parse_header, if flg.has_extra(): read_exact(..).context("extra read fail")?
extra_buffer(buffer) ==
    IF ~buffer.ok
    THEN [ok |-> FALSE, err |-> <<"extra read fail", buffer.err>>, stream |-> buffer.stream]
    ELSE [ok |-> TRUE, value |-> Some(buffer.value), stream |-> buffer.stream]

\* parse_header, if flg.has_extra(): read_u16().context("XLEN")?
extra_xlen(xlen) ==
    IF ~xlen.ok
    THEN [ok |-> FALSE, err |-> <<"XLEN", xlen.err>>, stream |-> xlen.stream]
    ELSE extra_buffer(read_exact(xlen.stream, xlen.value))

\* parse_header: the optional extra field
read_extra(present, reader) ==
    IF present THEN extra_xlen(read_u16_le(reader))
    ELSE [ok |-> TRUE, value |-> None, stream |-> reader]

\* parse_header: Some(String::from_utf8(buffer)?)
string_buffer(buffer) ==
    IF ~from_utf8_ok(buffer.value)
    THEN [ok |-> FALSE, err |-> <<"FromUtf8Error">>, stream |-> buffer.stream]
    ELSE [ok |-> TRUE, value |-> Some(buffer.value), stream |-> buffer.stream]

\* parse_header: the optional name or comment; read_until keeps the
\* terminating 0 in the string
read_string(present, reader) ==
    IF present THEN string_buffer(read_until(reader, 0, <<>>))
    ELSE [ok |-> TRUE, value |-> None, stream |-> reader]

\* parse_header, if flg.has_crc(): read_u16().context("XLEN")?
crc_value(crc) ==
    IF ~crc.ok
    THEN [ok |-> FALSE, err |-> <<"XLEN", crc.err>>, stream |-> crc.stream]
    ELSE crc

\* parse_header: the optional header CRC
read_crc(present, reader) ==
    IF present THEN crc_value(read_u16_le(reader))
    ELSE [ok |-> TRUE, value |-> 0, stream |-> reader]

\* parse_header: the checks on the finished MemberHeader
header_checks(member_header, crc) ==
    IF ~crc.ok THEN GErr(crc.err, crc.stream)
    ELSE IF member_header.has_crc /\ crc16(member_header) # crc.value
    THEN GErr(<<"header crc16 check failed">>, crc.stream)
    ELSE IF member_header.compression_method # CM_DEFLATE
    THEN GErr(<<"unsupported compression method">>, crc.stream)
    ELSE [kind |-> "ok", reader |-> crc.stream, header |-> member_header]

\* parse_header: after the comment, the header CRC
header_comment(flg, h, comment) ==
    IF ~comment.ok THEN GErr(comment.err, comment.stream)
    ELSE header_checks([h EXCEPT !.comment = comment.value,
                                 !.has_crc = bit(flg, FHCRC_OFFSET)],
                       read_crc(bit(flg, FHCRC_OFFSET), comment.stream))

\* parse_header: after the name, the comment
header_name(flg, h, name) ==
    IF ~name.ok THEN GErr(name.err, name.stream)
    ELSE header_comment(flg, [h EXCEPT !.name = name.value],
                        read_string(bit(flg, FCOMMENT_OFFSET), name.stream))

\* parse_header: after the extra field, the name
header_extra(flg, h, extra) ==
    IF ~extra.ok THEN GErr(extra.err, extra.stream)
    ELSE header_name(flg, [h EXCEPT !.extra = extra.value],
                     read_string(bit(flg, FNAME_OFFSET), extra.stream))

\* parse_header: OS, then the optional fields
header_os(cm, flg, mtime, xfl, os) ==
    IF ~os.ok THEN GErr(<<"OS", os.err>>, os.stream)
    ELSE header_extra(flg,
             [compression_method |-> cm, modification_time |-> mtime,
              extra |-> None, name |-> None, comment |-> None,
              extra_flags |-> xfl, os |-> os.value,
              has_crc |-> FALSE, is_text |-> bit(flg, FTEXT_OFFSET)],
             read_extra(bit(flg, FEXTRA_OFFSET), os.stream))

\* parse_header: XFL
header_xfl(cm, flg, mtime, xfl) ==
    IF ~xfl.ok THEN GErr(<<"XFL", xfl.err>>, xfl.stream)
    ELSE header_os(cm, flg, mtime, xfl.value, read_u8(xfl.stream))

\* parse_header: MTIME
header_mtime(cm, flg, mtime) ==
    IF ~mtime.ok THEN GErr(<<"MTIME", mtime.err>>, mtime.stream)
    ELSE header_xfl(cm, flg, mtime.value, read_u8(mtime.stream))

\* parse_header: FLG
header_flg(cm, flg) ==
    IF ~flg.ok THEN GErr(<<"FLG", flg.err>>, flg.stream)
    ELSE header_mtime(cm, flg.value, read_u32_le(flg.stream))

\* parse_header: CM
header_cm(cm) ==
    IF ~cm.ok THEN GErr(<<"CM", cm.err>>, cm.stream)
    ELSE header_flg(cm.value, read_u8(cm.stream))

\* parse_header: ID2 and the check of both id bytes
header_id2(id1, id2) ==
    IF ~id2.ok THEN GErr(<<id2.err>>, id2.stream)
    ELSE IF id1 # ID1 \/ id2.value # ID2 THEN GErr(<<"wrong id values">>, id2.stream)
    ELSE header_cm(read_u8(id2.stream))

\* parse_header: ID1
header_id1(id1) ==
    IF ~id1.ok THEN GErr(<<id1.err>>, id1.stream)
    ELSE header_id2(id1.value, read_u8(id1.stream))

\* GzipReader::parse_header
parse_header(reader) == header_id1(read_u8(reader))

\* read_crc32_and_isize: the second read_u32
trailer_isize(crc, size) ==
    IF ~size.ok THEN GErr(<<size.err>>, size.stream)
    ELSE [kind |-> "ok", reader |-> size.stream, crc32 |-> crc, isize |-> size.value]

\* read_crc32_and_isize: the first read_u32
trailer_crc32(crc) ==
    IF ~crc.ok THEN GErr(<<crc.err>>, crc.stream)
    ELSE trailer_isize(crc.value, read_u32_le(crc.stream))

\* GzipReader::read_crc32_and_isize
read_crc32_and_isize(reader) == trailer_crc32(read_u32_le(reader))

\* GzipReader::is_empty
is_empty(reader) == reader = <<>>

----------------------------------------------------------------------------
(* The bit reader on its own: any source, any sequence of requests.        *)
(* Every caller returns at the first failed read, so a failed read ends     *)
(* the run of requests.                                                     *)

SrcBytes == {99, 219, 175}     \* 0b01100011, 0b11011011, 0b10101111

Widths == 0..16

NoOp == [op |-> "none"]
NoHuffman == [code_lengths |-> <<>>]
NoWriter == [buffer |-> <<>>]
NoRun == [pc |-> "none"]

InitBits ==
    /\ source \in SeqsUpTo(SrcBytes, MaxSrcLen)
    /\ bit_reader = BitReaderNew(source)
    /\ consumed = 0
    /\ last = NoOp
    /\ huffman = NoHuffman
    /\ writer = NoWriter
    /\ member_start = 0
    /\ run = NoRun

Failed == last.op # "none" /\ ~last.ok

BR_ReadBits ==
    /\ ~Failed
    /\ \E n \in Widths :
        LET r == read_bits(bit_reader, n) IN
        /\ bit_reader' = r.reader
        /\ consumed' = IF r.ok THEN consumed + n ELSE consumed
        /\ last' = IF r.ok
                   THEN [op |-> "read_bits", n |-> n, before |-> consumed,
                         ok |-> TRUE, value |-> r.value]
                   ELSE [op |-> "read_bits", n |-> n, before |-> consumed,
                         ok |-> FALSE, err |-> r.err]
    /\ UNCHANGED <<source, huffman, writer, member_start, run>>

BR_Borrow ==
    /\ ~Failed
    /\ bit_reader' = borrow_reader_from_boundary(bit_reader)
    /\ consumed' = 8 * (Len(source) - Len(bit_reader.stream))
    /\ last' = [op |-> "borrow", before |-> consumed, ok |-> TRUE,
                held |-> bit_reader.bit_sequence.len]
    /\ UNCHANGED <<source, huffman, writer, member_start, run>>

\* reader.borrow_reader_from_boundary().read_u8()
BR_BorrowReadU8 ==
    /\ ~Failed
    /\ LET b == borrow_reader_from_boundary(bit_reader)
           r == read_u8(b.stream) IN
        /\ bit_reader' = [b EXCEPT !.stream = r.stream]
        /\ consumed' = 8 * (Len(source) - Len(r.stream))
        /\ last' = IF r.ok
                   THEN [op |-> "read_u8", before |-> consumed, ok |-> TRUE,
                         value |-> r.value]
                   ELSE [op |-> "read_u8", before |-> consumed, ok |-> FALSE,
                         err |-> r.err]
    /\ UNCHANGED <<source, huffman, writer, member_start, run>>

NextBits == BR_ReadBits \/ BR_Borrow \/ BR_BorrowReadU8

SpecBits == InitBits /\ [][NextBits]_vars

----------------------------------------------------------------------------
(* Huffman tables on their own: from_lengths on a code-length vector, then *)
(* read_symbol calls on a bit reader, as in the tests of huffman_coding.rs. *)

LenVals == {0, 1, 15}

\* the vectors of tests::from_lengths and tests::from_lengths_with_zeros
TestVectors == { <<2, 3, 4, 3, 3, 4, 2>>,
                 <<3, 4, 5, 5, 0, 0, 6, 6, 4, 0, 6, 0, 7>> }

CodeLengthVectors == SeqsUpTo(LenVals, MaxSyms) \cup TestVectors

\* the key under which a table holds symbol n
KeyOf(map, n) == CHOOSE k \in DOMAIN map : map[k].n = n

\* a code written most significant bit first
BitsOf(k) == [j \in 1..k.len |-> BitAt(k.bits, k.len - j)]

RECURSIVE EncodeSyms(_, _)
EncodeSyms(map, syms) ==
    IF syms = <<>> THEN <<>>
    ELSE BitsOf(KeyOf(map, Head(syms))) \o EncodeSyms(map, Tail(syms))

\* bits packed into bytes, first bit in the least significant position
PackBits(bits) ==
    [m \in 1..((Len(bits) + 7) \div 8) |->
        LET B(i) == IF 8 * (m - 1) + i + 1 <= Len(bits)
                    THEN bits[8 * (m - 1) + i + 1] * Pow2(i) ELSE 0
        IN B(0) + B(1) + B(2) + B(3) + B(4) + B(5) + B(6) + B(7)]

RawSources == { <<>>, <<255, 255>>, <<0, 255>> }

\* sum over the nonzero lengths of 2^(15 - len) is at most 2^15
RECURSIVE KraftSum(_)
KraftSum(v) ==
    IF v = <<>> THEN 0
    ELSE (IF Head(v) = 0 THEN 0 ELSE Pow2(MAX_BITS - Head(v))) + KraftSum(Tail(v))

PrefixFreeVector(v) == KraftSum(v) <= Pow2(MAX_BITS)

\* the symbol runs that are encoded with the table of a prefix-free vector
EncodableRuns(code_lengths) ==
    LET c == from_lengths("Value", code_lengths)
    IN IF PrefixFreeVector(code_lengths) /\ c.kind = "ok"
       THEN SeqsUpTo({c.map[k].n : k \in DOMAIN c.map}, MaxCodes) \ {<<>>}
       ELSE {}

InitHuff ==
    /\ \E v \in CodeLengthVectors :
        \/ \E syms \in EncodableRuns(v) :
            /\ huffman = [T |-> "Value", code_lengths |-> v,
                          coding |-> [kind |-> "none"],
                          encoded |-> TRUE, syms |-> syms, nread |-> 0]
            /\ source = PackBits(EncodeSyms(from_lengths("Value", v).map, syms))
        \/ \E raw \in RawSources :
            /\ huffman = [T |-> "Value", code_lengths |-> v,
                          coding |-> [kind |-> "none"],
                          encoded |-> FALSE, syms |-> <<>>, nread |-> 0]
            /\ source = raw
    /\ bit_reader = BitReaderNew(source)
    /\ consumed = 0
    /\ last = NoOp
    /\ writer = NoWriter
    /\ member_start = 0
    /\ run = NoRun

HF_FromLengths ==
    /\ huffman.coding.kind = "none"
    /\ LET c == from_lengths(huffman.T, huffman.code_lengths) IN
        /\ huffman' = [huffman EXCEPT !.coding = c]
        /\ last' = [op |-> "from_lengths", ok |-> (c.kind = "ok")]
    /\ UNCHANGED <<source, bit_reader, consumed, writer, member_start, run>>

HF_ReadSymbol ==
    /\ huffman.coding.kind = "ok"
    /\ ~Failed
    /\ LET r == read_symbol(huffman.coding, bit_reader) IN
        /\ bit_reader' = r.reader
        /\ consumed' = IF r.ok
                       THEN 8 * (Len(source) - Len(r.reader.stream))
                                - r.reader.bit_sequence.len
                       ELSE consumed
        /\ huffman' = [huffman EXCEPT !.nread = @ + 1]
        /\ last' = IF r.ok
                   THEN [op |-> "read_symbol", before |-> consumed, ok |-> TRUE,
                         value |-> r.value, k |-> huffman.nread + 1]
                   ELSE [op |-> "read_symbol", before |-> consumed, ok |-> FALSE,
                         err |-> r.err, k |-> huffman.nread + 1]
    /\ UNCHANGED <<source, writer, member_start, run>>

NextHuff == HF_FromLengths \/ HF_ReadSymbol

SpecHuff == InitHuff /\ [][NextHuff]_vars

----------------------------------------------------------------------------
(* The tracking writer on its own, over bounded and short-writing sinks,   *)
(* as in the tests of tracking_writer.rs.                                  *)

WBytes == {1, 2}

Sinks == { Sink(SinkCap, chunk) : chunk \in {1, SinkCap} }

InitWriter ==
    /\ writer \in { TrackingWriterNew(inner, WindowSize) : inner \in Sinks }
    /\ member_start = 0
    /\ last = NoOp
    /\ source = <<>>
    /\ bit_reader = BitReaderNew(source)
    /\ consumed = 0
    /\ huffman = NoHuffman
    /\ run = NoRun

TW_Write ==
    /\ \E buf \in SeqsUpTo(WBytes, MaxBuf) :
        LET w == tw_write(writer, buf) IN
        /\ writer' = w.writer
        /\ last' = [op |-> "write", buf |-> buf, before |-> writer,
                    ok |-> TRUE, n |-> w.n]
    /\ UNCHANGED <<source, bit_reader, consumed, huffman, member_start, run>>

TW_WriteAll ==
    /\ \E buf \in SeqsUpTo(WBytes, MaxBuf) :
        LET w == write_all(writer, buf) IN
        /\ writer' = w.writer
        /\ last' = [op |-> "write_all", buf |-> buf, before |-> writer,
                    ok |-> w.ok]
    /\ UNCHANGED <<source, bit_reader, consumed, huffman, member_start, run>>

TW_WritePrevious ==
    /\ \E dist \in 0..(WindowSize + 1), len \in 0..MaxCopy :
        LET w == write_previous(writer, dist, len) IN
        /\ writer' = w.writer
        /\ last' = [op |-> "write_previous", dist |-> dist, len |-> len,
                    before |-> writer, ok |-> w.ok]
    /\ UNCHANGED <<source, bit_reader, consumed, huffman, member_start, run>>

TW_Clear ==
    /\ writer' = clear(writer)
    /\ member_start' = Len(writer.inner.data)
    /\ last' = [op |-> "clear", before |-> writer, ok |-> TRUE]
    /\ UNCHANGED <<source, bit_reader, consumed, huffman, run>>

NextWriter == TW_Write \/ TW_WriteAll \/ TW_WritePrevious \/ TW_Clear

SpecWriter == InitWriter /\ [][NextWriter]_vars

----------------------------------------------------------------------------
(* src/lib.rs: decompress, one action per step of the member loop.         *)
(* bit_reader and writer are the two fields of the DeflateReader.          *)

Deflate == DeflateReaderNew(bit_reader, writer)

Finish(result) == [run EXCEPT !.pc = "done", !.result = result]

Step(pc, event) == [run EXCEPT !.pc = pc, !.events = Append(@, event)]

\* while !gzip_reader.is_empty()? ... Ok(())
DC_IsEmpty ==
    /\ run.pc = "loop"
    /\ run' = IF is_empty(bit_reader.stream) THEN Finish(Ok(TRUE))
              ELSE [run EXCEPT !.pc = "header"]
    /\ last' = [op |-> "is_empty", ok |-> TRUE]
    /\ UNCHANGED <<source, bit_reader, consumed, huffman, writer, member_start>>

\* the step of decompress after parse_header returned h
header_parsed(h) ==
    /\ bit_reader' = [bit_reader EXCEPT !.stream = h.reader]
    /\ run' = IF h.kind = "ok" THEN Step("block", "header")
              ELSE Finish(Err(h.err))
    /\ last' = [op |-> "parse_header", ok |-> (h.kind = "ok"),
                before |-> bit_reader]

\* gzip_reader.parse_header()
DC_ParseHeader ==
    /\ run.pc = "header"
    /\ header_parsed(parse_header(bit_reader.stream))
    /\ UNCHANGED <<source, consumed, huffman, writer, member_start>>

\* the type bits of a block whose three header bits were read as r
btype_of(r) == IF r.ok THEN r.value.bits \div 2 ELSE 4

\* the type bits of the block that starts at the reader's position
PeekBtype(reader) == btype_of(read_bits(reader, 3))

\* the final bit of a block whose first header bit was read as r
bfinal_of(r) == r.ok /\ r.value.bits = 1

PeekBfinal(reader) == bfinal_of(read_bits(reader, 1))

\* the step of decompress after next_block returned r
block_read(r) ==
    /\ bit_reader' = r.self.bit_reader
    /\ writer' = r.self.writer
    /\ run' = IF r.kind = "ok"
              THEN Step(IF r.value THEN "trailer" ELSE "block",
                        IF r.value THEN "final_block" ELSE "block")
              ELSE IF r.kind = "err" THEN Finish(Err(r.err))
              ELSE [run EXCEPT !.pc = "aborted"]
    /\ last' = [op |-> "next_block", ok |-> (r.kind = "ok"), kind |-> r.kind,
                btype |-> PeekBtype(bit_reader),
                bfinal |-> PeekBfinal(bit_reader),
                value |-> IF r.kind = "ok" THEN r.value ELSE FALSE,
                err |-> IF r.kind = "err" THEN r.err ELSE <<>>,
                before |-> writer, reader |-> bit_reader]

\* deflate.next_block(), in the inner loop
DC_NextBlock ==
    /\ run.pc = "block"
    /\ block_read(next_block(Deflate))
    /\ UNCHANGED <<source, consumed, huffman, member_start>>

\* the step of decompress after read_crc32_and_isize returned t on the
\* reader taken back from the DeflateReader d
trailer_read(d, t) ==
    /\ bit_reader' = [d.bit_reader EXCEPT !.stream = t.reader]
    /\ run' = IF t.kind = "ok"
              THEN [Step("check", "trailer_read") EXCEPT
                        !.trailer = [crc32 |-> t.crc32, isize |-> t.isize]]
              ELSE Finish(Err(t.err))
    /\ last' = [op |-> "read_crc32_and_isize", ok |-> (t.kind = "ok"),
                before |-> bit_reader]

\* the trailer is read from the byte source of deflate.get_input()
trailer_input(d) == trailer_read(d, read_crc32_and_isize(d.bit_reader.stream))

\* gzip_reader = GzipReader::new(deflate.get_input());
\* gzip_reader.read_crc32_and_isize()?
DC_ReadTrailer ==
    /\ run.pc = "trailer"
    /\ trailer_input(get_input(Deflate))
    /\ UNCHANGED <<source, consumed, huffman, writer, member_start>>

\* the step of decompress after check_crc32_and_isize returned c
trailer_checked(c) ==
    /\ run' = IF c.ok THEN Step("output", "trailer_ok") ELSE Finish(c)
    /\ last' = [op |-> "check_crc32_and_isize", ok |-> c.ok]

\* deflate.check_crc32_and_isize(crc32, isize)?
DC_CheckTrailer ==
    /\ run.pc = "check"
    /\ trailer_checked(check_crc32_and_isize(Deflate, run.trailer.crc32,
                                             run.trailer.isize))
    /\ UNCHANGED <<source, bit_reader, consumed, huffman, writer, member_start>>

\* the step of decompress with the DeflateReader d left by output and
\* get_input
member_done(d) ==
    /\ bit_reader' = d.bit_reader
    /\ writer' = d.writer
    /\ member_start' = Len(writer.inner.data)
    /\ run' = [run EXCEPT !.pc = "loop", !.events = @ \o <<"flush", "clear">>,
                          !.members = @ + 1]
    /\ last' = [op |-> "output", ok |-> TRUE, before |-> writer]

\* deflate.output()?; gzip_reader = GzipReader::new(deflate.get_input())
DC_Output ==
    /\ run.pc = "output"
    /\ member_done(get_input(output(Deflate)))
    /\ UNCHANGED <<source, consumed, huffman>>

Next == \/ DC_IsEmpty \/ DC_ParseHeader \/ DC_NextBlock
        \/ DC_ReadTrailer \/ DC_CheckTrailer \/ DC_Output

----------------------------------------------------------------------------
(* The inputs decompress is run on.  An input is the source bytes, whether  *)
(* they are a valid gzip stream, and the payload they encode.              *)

\* the member whose only block is the fixed-Huffman end-of-block code
FixedEmptyBytes ==
    <<31, 139, 8, 0, 0, 0, 0, 0, 0, 3, 3, 0, 0, 0, 0, 0, 0, 0, 0, 0>>
FixedEmptyPayload ==
    <<>>

\* "abc" in one fixed-Huffman block
FixedAbcBytes ==
    <<31, 139, 8, 0, 0, 0, 0, 0, 0, 3, 75, 76, 74, 6, 0, 194, 65, 36, 53, 3,
    0, 0, 0>>
FixedAbcPayload ==
    <<97, 98, 99>>

\* two members, "foo" and "bar", each one fixed-Huffman block (zlib output)
FixedFooBarBytes ==
    <<31, 139, 8, 0, 0, 0, 0, 0, 2, 3, 75, 203, 207, 7, 0, 33, 101, 115,
    140, 3, 0, 0, 0, 31, 139, 8, 0, 0, 0, 0, 0, 2, 3, 75, 74, 44, 2, 0, 170,
    140, 255, 118, 3, 0, 0, 0>>
FixedFooBarPayload ==
    <<102, 111, 111, 98, 97, 114>>

\* "aba" in a dynamic-Huffman block with no distance codes
DynLiteralsBytes ==
    <<31, 139, 8, 0, 0, 0, 0, 0, 0, 3, 5, 192, 1, 9, 0, 0, 0, 128, 160, 173,
    246, 127, 68, 200, 238, 32, 42, 219, 3, 0, 0, 0>>
DynLiteralsPayload ==
    <<97, 98, 97>>

\* "aaaaa" in a dynamic-Huffman block: a literal and a copy of 4 at distance 1
DynMatchBytes ==
    <<31, 139, 8, 0, 0, 0, 0, 0, 0, 3, 21, 192, 1, 9, 0, 0, 0, 128, 160,
    173, 254, 63, 17, 105, 1, 185, 147, 172, 238, 5, 0, 0, 0>>
DynMatchPayload ==
    <<97, 97, 97, 97, 97>>

\* "a" in a dynamic-Huffman block whose last zero run covers the end of the
\* literal/length lengths and the first distance length
DynZeroRunCrossBytes ==
    <<31, 139, 8, 0, 0, 0, 0, 0, 0, 3, 29, 193, 33, 1, 0, 0, 0, 0, 144, 173,
    254, 159, 80, 8, 67, 190, 183, 232, 1, 0, 0, 0>>
DynZeroRunCrossPayload ==
    <<97>>

\* "ab" in a dynamic-Huffman block whose first distance lengths repeat the
\* last literal/length length (code 16 right after the boundary)
DynCopyPrevCrossBytes ==
    <<31, 139, 8, 0, 0, 0, 0, 0, 0, 3, 13, 195, 135, 1, 0, 0, 0, 130, 160,
    91, 233, 255, 35, 114, 217, 1, 109, 72, 131, 158, 2, 0, 0, 0>>
DynCopyPrevCrossPayload ==
    <<97, 98>>

\* 21 bytes in one dynamic-Huffman block (zlib output, Z_HUFFMAN_ONLY)
ZlibDynBytes ==
    <<31, 139, 8, 0, 0, 0, 0, 0, 2, 3, 5, 193, 1, 1, 0, 0, 0, 128, 144, 173,
    250, 63, 34, 16, 8, 80, 26, 224, 113, 175, 128, 21, 0, 0, 0>>
ZlibDynPayload ==
    <<97, 97, 97, 98, 97, 97, 97, 97, 97, 98, 97, 97, 97, 97, 97, 97, 97,
    98, 98, 97, 98>>

\* the CRC register after the bytes, taken one byte at a time
RECURSIVE CrcFold(_, _)
CrcFold(reg, bytes) ==
    IF bytes = <<>> THEN reg
    ELSE LET next == digest_byte(reg, Head(bytes))
         IN IF next.lo >= 0 THEN CrcFold(next, Tail(bytes)) ELSE reg

\* the CRC-32 of a byte string
Crc32Of(bytes) == digest_finalize(CrcFold(CrcInit, bytes))

\* cut: the bytes are a valid stream cut short strictly inside a member
Input(bytes, valid, payload) ==
    [bytes |-> bytes, valid |-> valid, payload |-> payload, cut |-> FALSE]

LE16(n) == <<n % 256, (n \div 256) % 256>>

\* the CRC-32 of a byte string, as the four bytes of a trailer
CrcBytes(x) == to_le_bytes32(digest_finalize(digest_update(CrcInit, x)))

Trailer(x) == CrcBytes(x) \o to_le_bytes32(ToU32(Len(x)))

PlainHeader == <<31, 139, 8, 0, 0, 0, 0, 0, 0, 3>>

\* a stored block: BFINAL, BTYPE = 0, padding to the byte, LEN, NLEN, data
StoredBlock(final, x) ==
    <<IF final THEN 1 ELSE 0>> \o LE16(Len(x)) \o LE16(65535 - Len(x)) \o x

\* a final stored block whose five padding bits are not all 0
PaddedStoredBlock(pad, x) ==
    <<1 + 8 * pad>> \o LE16(Len(x)) \o LE16(65535 - Len(x)) \o x

StoredMember(x) == PlainHeader \o StoredBlock(TRUE, x) \o Trailer(x)

\* "aaaaab": the dynamic-Huffman block of "aaaaa", not final, and a final
\* stored block of "b" whose header begins in the byte where the first ends
DynThenStoredBytes ==
    PlainHeader \o <<20>> \o SubSeq(DynMatchBytes, 12, 24) \o <<5>>
    \o LE16(1) \o LE16(65534) \o <<98>> \o Trailer(DynMatchPayload \o <<98>>)

\* the payload split over a non-final and a final stored block
TwoBlockMember(x, y) ==
    PlainHeader \o StoredBlock(FALSE, x) \o StoredBlock(TRUE, y) \o Trailer(x \o y)

PayloadBytes == {97, 98}

Payloads == SeqsUpTo(PayloadBytes, MaxPayload)

Hello == <<72, 101, 108, 108, 111>>
Foo == <<102, 111, 111>>
Bar == <<98, 97, 114>>

\* a byte string with its last byte changed
CorruptLast(b) == [b EXCEPT ![Len(b)] = (@ + 1) % 256]

\* a member with the CRC-32 field of its trailer changed
CorruptCrc(b) == [b EXCEPT ![Len(b) - 7] = (@ + 1) % 256]

\* a member header with the optional fields its flag byte announces: two
\* extra bytes, the name "n", the comment "c", and the CRC16 of what precedes
ExtraField == <<1, 2>>
NameField == <<110>>
CommentField == <<99>>

HeaderFields(flg) ==
    <<31, 139, 8, flg, 0, 0, 0, 0, 0, 3>>
    \o (IF bit(flg, FEXTRA_OFFSET) THEN LE16(Len(ExtraField)) \o ExtraField ELSE <<>>)
    \o (IF bit(flg, FNAME_OFFSET) THEN NameField \o <<0>> ELSE <<>>)
    \o (IF bit(flg, FCOMMENT_OFFSET) THEN CommentField \o <<0>> ELSE <<>>)

HeaderCrc(h) == LE16(Crc32Of(h).lo)

Header(flg) ==
    HeaderFields(flg)
    \o (IF bit(flg, FHCRC_OFFSET) THEN HeaderCrc(HeaderFields(flg)) ELSE <<>>)

\* a member with that header and one stored block
FlaggedMember(flg, x) == Header(flg) \o StoredBlock(TRUE, x) \o Trailer(x)

\* the flag bytes with the reserved bits clear
FlagBytes == 0..31

ValidInputs ==
    { Input(FixedEmptyBytes, TRUE, FixedEmptyPayload),
      Input(FixedAbcBytes, TRUE, FixedAbcPayload),
      Input(FixedFooBarBytes, TRUE, FixedFooBarPayload),
      Input(DynLiteralsBytes, TRUE, DynLiteralsPayload),
      Input(DynMatchBytes, TRUE, DynMatchPayload),
      Input(DynZeroRunCrossBytes, TRUE, DynZeroRunCrossPayload),
      Input(DynCopyPrevCrossBytes, TRUE, DynCopyPrevCrossPayload),
      Input(ZlibDynBytes, TRUE, ZlibDynPayload),
      Input(DynThenStoredBytes, TRUE, DynMatchPayload \o <<98>>),
      Input(StoredMember(Hello), TRUE, Hello),
      Input(StoredMember(Foo) \o StoredMember(Bar), TRUE, Foo \o Bar),
      Input(StoredMember(Foo) \o DynMatchBytes, TRUE, Foo \o DynMatchPayload),
      Input(<<>>, TRUE, <<>>) }
    \cup { Input(StoredMember(x), TRUE, x) : x \in Payloads }
    \cup { Input(TwoBlockMember(x, y), TRUE, x \o y) : x, y \in Payloads }
    \cup { Input(StoredMember(x) \o StoredMember(y), TRUE, x \o y) : x, y \in Payloads }
    \cup { Input(FlaggedMember(flg, <<97>>), TRUE, <<97>>) : flg \in FlagBytes }
    \cup { Input(PlainHeader \o PaddedStoredBlock(pad, x) \o Trailer(x), TRUE, x) :
                pad \in {1, 31}, x \in {<<97>>, Hello} }

InvalidInputs ==
    { Input(CorruptCrc(StoredMember(Hello)), FALSE, <<>>),
      Input(CorruptLast(StoredMember(Hello)), FALSE, <<>>),
      Input(CorruptCrc(DynMatchBytes), FALSE, <<>>),
      Input(CorruptLast(Header(2)) \o StoredBlock(TRUE, <<97>>) \o Trailer(<<97>>),
            FALSE, <<>>),
      Input(CorruptLast(Header(6)) \o StoredBlock(TRUE, <<97>>) \o Trailer(<<97>>),
            FALSE, <<>>),
      Input(FlaggedMember(34, <<97>>), FALSE, <<>>),
      Input(PlainHeader \o <<1>> \o LE16(1) \o LE16(0) \o <<97>> \o Trailer(<<97>>),
            FALSE, <<>>),
      Input(PlainHeader \o <<1>> \o LE16(2) \o LE16(65535 - 1) \o <<97, 98>>
                \o Trailer(<<97, 98>>), FALSE, <<>>),
      Input(<<31, 139, 8, 0, 0, 0, 0, 0, 0, 3, 7>>, FALSE, <<>>),
      Input(<<31, 140, 8, 0, 0, 0, 0, 0, 0, 3>>, FALSE, <<>>),
      Input(<<31, 139, 9, 0, 0, 0, 0, 0, 0, 3>>, FALSE, <<>>) }

\* the streams made of whole members followed by a member cut short after
\* at least one and before its last byte
CutInside(whole, member) ==
    { [Input(whole \o SubSeq(member, 1, k), FALSE, <<>>) EXCEPT !.cut = TRUE] :
        k \in 1..(Len(member) - 1) }

TruncatedInputs ==
    CutInside(<<>>, StoredMember(Hello))
    \cup CutInside(<<>>, TwoBlockMember(<<97>>, <<98>>))
    \cup CutInside(<<>>, FlaggedMember(31, <<97>>))
    \cup CutInside(<<>>, FlaggedMember(8, <<97>>))
    \cup CutInside(<<>>, DynLiteralsBytes)
    \cup CutInside(<<>>, DynMatchBytes)
    \cup CutInside(<<>>, ZlibDynBytes)
    \cup CutInside(StoredMember(Foo), StoredMember(Bar))

Inputs == ValidInputs \cup InvalidInputs \cup TruncatedInputs

Init ==
    /\ \E inp \in Inputs :
        /\ source = inp.bytes
        /\ run = [pc |-> "loop", result |-> Ok(FALSE), expect |-> inp,
                  events |-> <<>>, members |-> 0,
                  trailer |-> [crc32 |-> U32(0, 0), isize |-> U32(0, 0)]]
    /\ bit_reader = borrow_reader_from_boundary(BitReaderNew(source))
    /\ writer = TrackingWriterNew(VecSink, HISTORY_SIZE)
    /\ member_start = 0
    /\ consumed = 0
    /\ last = NoOp
    /\ huffman = NoHuffman

Spec == Init /\ [][Next]_vars

----------------------------------------------------------------------------
(* Dynamic tables on their own: the header of a block with btype 2 is read *)
(* as next_block reads it, then decode_dynamic_tree decodes the two        *)
(* tables from the bits that follow.                                       *)

\* a code-length token as it is written in a stream: its symbol 0..18 and
\* the value of the extra bits that follow it
Tok(sym, extra) == [sym |-> sym, extra |-> extra]

\* the symbols that have a code in the code-length table the streams carry;
\* all eight codes are three bits long, in this order
CodedSyms == <<0, 1, 2, 3, 15, 16, 17, 18>>

CodedLengths == [s \in 1..19 |-> IF \E i \in 1..8 : CodedSyms[i] = s - 1 THEN 3 ELSE 0]

\* a field of n bits, least significant bit first
FieldBits(v, n) == [i \in 1..n |-> BitAt(v, i - 1)]

\* the code of a symbol, most significant bit first
SymBits(sym) ==
    LET i == CHOOSE j \in 1..8 : CodedSyms[j] = sym
    IN <<BitAt(i - 1, 2), BitAt(i - 1, 1), BitAt(i - 1, 0)>>

ExtraWidth(sym) == IF sym = 16 THEN 2 ELSE IF sym = 17 THEN 3 ELSE IF sym = 18 THEN 7 ELSE 0

RECURSIVE TokBits(_)
TokBits(tokens) ==
    IF tokens = <<>> THEN <<>>
    ELSE SymBits(Head(tokens).sym)
         \o FieldBits(Head(tokens).extra, ExtraWidth(Head(tokens).sym))
         \o TokBits(Tail(tokens))

RECURSIVE CodedLengthBits(_)
CodedLengthBits(k) ==
    IF k > 19 THEN <<>>
    ELSE FieldBits(CodedLengths[SPECIAL_ORDER[k] + 1], 3) \o CodedLengthBits(k + 1)

\* a final block with btype 2: bfinal, btype, HLIT, HDIST, HCLEN = 15, the
\* nineteen code lengths, the tokens
TreeBytes(hlit, hdist, tokens) ==
    PackBits(<<1, 0, 1>> \o FieldBits(hlit, 5) \o FieldBits(hdist, 5)
             \o FieldBits(15, 4) \o CodedLengthBits(1) \o TokBits(tokens))

\* the entries a token writes
EntriesOf(tok) ==
    IF tok.sym <= 15 THEN 1
    ELSE IF tok.sym = 18 THEN 11 + tok.extra ELSE 3 + tok.extra

\* the tokens left when the first ones have written `need` entries
RECURSIVE TokensAfter(_, _)
TokensAfter(tokens, need) ==
    IF need <= 0 \/ tokens = <<>> THEN tokens
    ELSE TokensAfter(Tail(tokens), need - EntriesOf(Head(tokens)))

\* tokens that write the first 255 literal/length entries: a 2, then zeros
To255 == <<Tok(2, 0), Tok(18, 127), Tok(18, 105)>>

TreeHeads == { <<>>, To255 }

MaxTail == 3

TreeAlphabet == { Tok(0, 0), Tok(2, 0), Tok(16, 0), Tok(16, 3),
                  Tok(17, 0), Tok(18, 20) }

TreeTails == SeqsUpTo(TreeAlphabet, MaxTail)

\* four lengths of 1 and one of 15: the code of the last one needs 17 bits
OverSubscribed ==
    <<Tok(1, 0), Tok(1, 0), Tok(1, 0), Tok(1, 0), Tok(15, 0),
      Tok(18, 127), Tok(18, 103), Tok(0, 0)>>

TreeStreams ==
    { [hlit |-> hl, hdist |-> hd, tokens |-> h \o t] :
        hl \in {0, 30}, hd \in {0, 31}, h \in TreeHeads, t \in TreeTails }
    \cup { [hlit |-> 0, hdist |-> 0, tokens |-> OverSubscribed] }

InitTree ==
    /\ \E s \in TreeStreams :
        /\ huffman = [hlit |-> s.hlit, hdist |-> s.hdist, tokens |-> s.tokens,
                      tables |-> [kind |-> "none"]]
        /\ source = TreeBytes(s.hlit, s.hdist, s.tokens)
    /\ bit_reader = BitReaderNew(source)
    /\ consumed = 0
    /\ last = NoOp
    /\ writer = NoWriter
    /\ member_start = 0
    /\ run = NoRun

\* next_block: bfinal = read_bits(1)?, btype = read_bits(2)?
DT_BlockHeader ==
    /\ last = NoOp
    /\ LET f == read_bits(bit_reader, 1) IN
        /\ f.ok
        /\ LET t == read_bits(f.reader, 2) IN
            /\ t.ok
            /\ bit_reader' = t.reader
            /\ last' = [op |-> "block_header", bfinal |-> f.value.bits,
                        btype |-> t.value.bits]
    /\ UNCHANGED <<source, consumed, huffman, writer, member_start, run>>

\* read_data, btype 2: decode_dynamic_tree(&mut self.bit_reader)
DT_DecodeDynamicTree ==
    /\ last.op = "block_header"
    /\ last.btype = 2
    /\ LET r == decode_dynamic_tree(bit_reader) IN
        /\ bit_reader' = r.reader
        /\ huffman' = [huffman EXCEPT !.tables = r]
        /\ last' = [op |-> "decode_dynamic_tree", kind |-> r.kind,
                    stage |-> IF r.kind = "ok" THEN "done" ELSE r.stage]
    /\ UNCHANGED <<source, consumed, writer, member_start, run>>

NextTree == DT_BlockHeader \/ DT_DecodeDynamicTree

SpecTree == InitTree /\ [][NextTree]_vars

----------------------------------------------------------------------------
(* Claims about the bit reader *)

\* bit j of the source: bit (j mod 8) of source byte (j div 8)
StreamBit(j) == BitAt(source[(j \div 8) + 1], j % 8)

CeilDiv8(p) == (p + 7) \div 8

\* C3: a read_bits request of width n made when p bits have been consumed
\* returns the n stream bits p..p+n-1, least significant first, in a
\* BitSequence of length n; it fails with UnexpectedEof exactly when bit
\* p+n-1 lies beyond the last source byte.
C3_ReadBitsLsbFirst ==
    last.op = "read_bits" =>
        IF last.before + last.n <= 8 * Len(source)
        THEN /\ last.ok
             /\ last.value.len = last.n
             /\ last.value.bits < Pow2(last.n)
             /\ \A i \in 0..(last.n - 1) :
                    BitAt(last.value.bits, i) = StreamBit(last.before + i)
        ELSE /\ ~last.ok
             /\ last.err = "UnexpectedEof"

\* a 16-bit request that starts inside a byte and spans three source bytes
C3_Witness ==
    /\ last.op = "read_bits" /\ last.ok
    /\ last.n = 16 /\ last.before % 8 = 3
    /\ last.value.bits # 0

\* C4: the accumulator holds fewer than 8 bits, and they are the unread high
\* bits of the last byte taken from the source; borrow_reader_from_boundary
\* empties it without moving the source, so the next byte read directly is
\* source byte ceil(p/8) and the next read_bits starts at bit 0 of that byte.
C4_Realign ==
    /\ ~Failed =>
        /\ bit_reader.bit_sequence.len < 8
        /\ consumed + bit_reader.bit_sequence.len
               = 8 * (Len(source) - Len(bit_reader.stream))
        /\ bit_reader.bit_sequence.bits < Pow2(bit_reader.bit_sequence.len)
        /\ \A i \in 0..(bit_reader.bit_sequence.len - 1) :
               BitAt(bit_reader.bit_sequence.bits, i) = StreamBit(consumed + i)
    /\ last.op = "borrow" =>
        /\ bit_reader.bit_sequence = BitSequence(0, 0)
        /\ Len(source) - Len(bit_reader.stream) = CeilDiv8(last.before)
        /\ consumed = 8 * CeilDiv8(last.before)
    /\ (last.op = "read_u8" /\ last.ok) =>
        /\ last.value = source[CeilDiv8(last.before) + 1]
        /\ consumed = 8 * (CeilDiv8(last.before) + 1)
        /\ bit_reader.bit_sequence = BitSequence(0, 0)

\* three bits were read, five were discarded, and the second byte was read
C4_Witness ==
    /\ last.op = "read_u8" /\ last.ok
    /\ last.before = 3
    /\ last.value = source[2]

----------------------------------------------------------------------------
(* Claims about the Huffman tables *)

\* number of entries of value L among the first i entries of a vector
CountBefore(v, i, L) == Cardinality({j \in 1..(i - 1) : v[j] = L})

\* nextCode[L] of the claim: nextCode[L] = (nextCode[L-1] + count[L-1]) << 1,
\* count[0] taken as 0
RECURSIVE NextCodeOf(_, _)
NextCodeOf(v, L) ==
    IF L = 0 THEN 0
    ELSE LET c == IF L = 1 THEN 0 ELSE CountBefore(v, Len(v) + 1, L - 1)
         IN (NextCodeOf(v, L - 1) + c) * 2

\* the bit sequence the canonical algorithm gives symbol i-1 of vector v
CanonicalKey(v, i) ==
    BitSequence(NextCodeOf(v, v[i]) + CountBefore(v, i, v[i]), v[i])

\* the table holds exactly the canonical entries of the nonzero lengths
IsCanonicalTable(v, c) ==
    /\ c.kind = "ok"
    /\ DOMAIN c.map = { CanonicalKey(v, i) : i \in {j \in DOMAIN v : v[j] # 0} }
    /\ \A i \in DOMAIN v :
          v[i] # 0 => decode_symbol(c, CanonicalKey(v, i))
                          = [some |-> TRUE, value |-> [t |-> "Value", n |-> i - 1]]
    /\ Cardinality(DOMAIN c.map) = Cardinality({j \in DOMAIN v : v[j] # 0})

\* C5: for every vector with entries in 0..15 from_lengths builds the table
\* that holds exactly one entry per symbol of nonzero length, under its
\* canonical bit sequence, and nothing else.
C5_FromLengthsCanonical ==
    huffman.coding.kind # "none" =>
        IsCanonicalTable(huffman.code_lengths, huffman.coding)

\* the n bits after position p, first bit most significant
PrefixAt(p, n) == BitSequence(LET RECURSIVE V(_)
                                  V(i) == IF i = n THEN 0
                                          ELSE StreamBit(p + i) * Pow2(n - 1 - i) + V(i + 1)
                              IN V(0), n)

TotalBits == 8 * Len(source)

\* the lengths at which a prefix of the bits after p is in the table
Matches(map, p) ==
    {n \in 1..MAX_BITS : p + n <= TotalBits /\ PrefixAt(p, n) \in DOMAIN map}

SetMin(S) == CHOOSE x \in S : \A y \in S : x <= y

\* C6: with a prefix-free vector and a stream of codes written most
\* significant bit first, the k-th read_symbol returns the k-th symbol and
\* consumes exactly its code length; read_symbol returns the shortest prefix
\* of the remaining bits that is in the table, and an error when no prefix
\* of up to 15 bits is in the table or the source ends before a match.
C6_ReadSymbol ==
    (last.op = "read_symbol" /\ PrefixFreeVector(huffman.code_lengths)) =>
        LET map == huffman.coding.map
            M == Matches(map, last.before)
        IN /\ (huffman.encoded /\ last.k <= Len(huffman.syms)) =>
                /\ last.ok
                /\ last.value.n = huffman.syms[last.k]
                /\ consumed - last.before
                       = huffman.code_lengths[huffman.syms[last.k] + 1]
           /\ IF M # {}
              THEN /\ last.ok
                   /\ consumed - last.before = SetMin(M)
                   /\ last.value = map[PrefixAt(last.before, SetMin(M))]
              ELSE /\ ~last.ok
                   /\ last.err = IF last.before + MAX_BITS <= TotalBits
                                 THEN "read_symbol 2 type error"
                                 ELSE "UnexpectedEof"

\* the second symbol of an encoded run was read, and its code is longer
\* than one bit
C6_Witness ==
    /\ last.op = "read_symbol" /\ last.ok
    /\ PrefixFreeVector(huffman.code_lengths)
    /\ huffman.encoded /\ last.k = 2 /\ Len(huffman.syms) >= 2
    /\ last.value.n = huffman.syms[2]
    /\ consumed - last.before >= 2

----------------------------------------------------------------------------
(* Claims about the tracking writer *)

IsPrefixOf(a, b) == Len(a) <= Len(b) /\ SubSeq(b, 1, Len(a)) = a

LastN(seq, n) == SubSeq(seq, Len(seq) - Min(n, Len(seq)) + 1, Len(seq))

\* the bytes the sink accepted during the last call
AcceptedByCall ==
    SubSeq(writer.inner.data, Len(last.before.inner.data) + 1, Len(writer.inner.data))

\* the bytes the sink accepted since the last clear
SinceClear == SubSeq(writer.inner.data, member_start + 1, Len(writer.inner.data))

\* the room the sink had when the last call began
RoomBefore == last.before.inner.cap - Len(last.before.inner.data)

\* C7: after write, write_all or write_previous, successful or not, the
\* counter has grown by the number of bytes the sink accepted during the
\* call, and the CRC and the window were extended by exactly those bytes.
C7_CountsAcceptedOnly ==
    last.op \in {"write", "write_all", "write_previous"} =>
        /\ IsPrefixOf(last.before.inner.data, writer.inner.data)
        /\ writer.byte_counter = last.before.byte_counter + Len(AcceptedByCall)
        /\ writer.digest = digest_update(last.before.digest, AcceptedByCall)
        /\ writer.buffer = LastN(last.before.buffer \o AcceptedByCall,
                                 writer.history_size)
        /\ last.op = "write" =>
              /\ last.n = Len(AcceptedByCall)
              /\ IsPrefixOf(AcceptedByCall, last.buf)
        /\ (last.op = "write_all" /\ last.ok) => AcceptedByCall = last.buf

\* a back-reference failed after the sink had accepted part of the copy
C7_Witness ==
    /\ last.op = "write_previous" /\ ~last.ok
    /\ 0 < Len(AcceptedByCall) /\ Len(AcceptedByCall) < last.len
    /\ writer.byte_counter = last.before.byte_counter + Len(AcceptedByCall)

\* a copy made one byte at a time from the live stream
RECURSIVE ByteByByte(_, _, _)
ByteByByte(stream, dist, len) ==
    IF len = 0 THEN <<>>
    ELSE LET b == stream[Len(stream) - dist + 1]
         IN <<b>> \o ByteByByte(Append(stream, b), dist, len - 1)

\* C8: with 1 <= dist <= window length and a sink that takes all the bytes,
\* write_previous(dist, len) succeeds and emits what a byte-by-byte copy
\* from the live stream emits.
C8_OverlappingCopy ==
    (/\ last.op = "write_previous"
     /\ 1 <= last.dist /\ last.dist <= Len(last.before.buffer)
     /\ last.len <= RoomBefore) =>
        /\ last.ok
        /\ AcceptedByCall = ByteByByte(last.before.buffer, last.dist, last.len)

\* an overlapping copy of three bytes at distance two over two different bytes
C8_Witness ==
    /\ last.op = "write_previous" /\ last.ok
    /\ last.dist = 2 /\ last.len = 3
    /\ Len(last.before.buffer) >= 2
    /\ LastN(last.before.buffer, 2)[1] # LastN(last.before.buffer, 2)[2]
    /\ Len(AcceptedByCall) = 3

\* C9: write_previous with dist beyond the window returns an error and
\* changes nothing.
C9_BadDistance ==
    (last.op = "write_previous" /\ last.dist > Len(last.before.buffer)) =>
        /\ ~last.ok
        /\ writer = last.before

\* a copy was asked from further back than a non-empty window reaches
C9_Witness ==
    /\ last.op = "write_previous"
    /\ last.before.buffer # <<>>
    /\ last.dist > Len(last.before.buffer) /\ last.len > 0
    /\ ~last.ok

\* C10: the window is the last min(n, limit) bytes accepted since the last
\* clear; once more than limit bytes were written, a back-reference at
\* dist = limit succeeds (the sink taking the bytes) and one at limit + 1 fails.
C10_WindowBounded ==
    /\ Len(writer.buffer) <= writer.history_size
    /\ writer.buffer = LastN(SinceClear, writer.history_size)
    /\ writer.digest = digest_update(CrcInit, SinceClear)
    /\ writer.byte_counter = Len(SinceClear)
    /\ (/\ last.op = "write_previous"
        /\ Len(last.before.inner.data) - member_start > writer.history_size) =>
          /\ (last.dist = writer.history_size /\ last.len <= RoomBefore) => last.ok
          /\ last.dist = writer.history_size + 1 => ~last.ok

\* more bytes than the window holds were written, and a copy from the far
\* end of the window succeeded
C10_Witness ==
    /\ last.op = "write_previous" /\ last.ok
    /\ Len(last.before.inner.data) - member_start > writer.history_size
    /\ last.dist = writer.history_size /\ last.len >= 1
    /\ Len(writer.buffer) = writer.history_size

----------------------------------------------------------------------------
(* Claims about decompress *)

Returned == run.pc \in {"done", "aborted"}

Succeeded == run.pc = "done" /\ run.result.ok

\* C1: for every valid gzip encoding of X, decompress returns success and
\* the bytes accepted by the sink are exactly X.
C1_RoundTrip ==
    (Returned /\ run.expect.valid) =>
        /\ Succeeded
        /\ writer.inner.data = run.expect.payload

\* C2: a block with btype = 1 is decoded with the fixed tables: building
\* them succeeds, the tokens are decoded up to end-of-block and next_block
\* returns bfinal; the empty fixed-Huffman member decompresses to nothing
\* and the fixed-Huffman member of "abc" to "abc".
C2_FixedHuffmanBlock ==
    /\ (last.op = "next_block" /\ last.btype = 1 /\ run.expect.valid) =>
          /\ last.kind = "ok"
          /\ last.value = last.bfinal
    /\ (Returned /\ source \in {FixedEmptyBytes, FixedAbcBytes}) =>
          /\ Succeeded
          /\ writer.inner.data = run.expect.payload

\* the u32 held little-endian in four bytes
Le32(b) == U32(b[3] + 256 * b[4], b[1] + 256 * b[2])

IsSuffixOf(a, b) == Len(a) <= Len(b) /\ LastN(b, Len(a)) = a

\* the bytes emitted for the current member
MemberBytes == SubSeq(writer.inner.data, member_start + 1, Len(writer.inner.data))

\* C11: after the final block the trailer is the eight bytes at the byte
\* boundary where the block ended (the unread bits of the block's last byte
\* are dropped): CRC-32 then ISIZE, little-endian.  decompress goes on past
\* the member iff the CRC is the CRC-32 of the bytes emitted for this member
\* and ISIZE is their number modulo 2^32; otherwise it returns an error.
C11_TrailerVerified ==
    /\ last.op = "read_crc32_and_isize" =>
          /\ IsSuffixOf(last.before.stream, source)
          /\ last.before.bit_sequence.len < 8
          /\ last.ok <=> Len(last.before.stream) >= 8
          /\ last.ok =>
                /\ run.trailer.crc32 = Le32(SubSeq(last.before.stream, 1, 4))
                /\ run.trailer.isize = Le32(SubSeq(last.before.stream, 5, 8))
                /\ bit_reader = BitReaderNew(SubSeq(last.before.stream, 9,
                                                    Len(last.before.stream)))
          /\ ~last.ok => (run.pc = "done" /\ ~run.result.ok)
    /\ last.op = "check_crc32_and_isize" =>
          /\ last.ok <=>
                /\ run.trailer.crc32 = Crc32Of(MemberBytes)
                /\ run.trailer.isize = ToU32(Len(MemberBytes))
          /\ last.ok => run.pc = "output"
          /\ ~last.ok => (run.pc = "done" /\ ~run.result.ok)

\* the trailer of a member held the right CRC-32 and a wrong ISIZE, and
\* decompress returned an error
C11_Witness ==
    /\ last.op = "check_crc32_and_isize" /\ ~last.ok
    /\ MemberBytes # <<>>
    /\ run.trailer.crc32 = Crc32Of(MemberBytes)
    /\ run.trailer.isize # ToU32(Len(MemberBytes))
    /\ run.pc = "done" /\ ~run.result.ok

\* C12: before a member's header is parsed, and so after every verified
\* trailer, the window is empty, the CRC is the initial one and the counter
\* is 0; the window, the CRC and the counter cover the bytes of the current
\* member only, so no back-reference reaches an earlier member; members
\* encoding "foo" and "bar" yield "foobar".
C12_MembersIsolated ==
    /\ run.pc \in {"loop", "header"} =>
          /\ writer.buffer = <<>>
          /\ writer.digest = CrcInit
          /\ writer.byte_counter = 0
    /\ last.op = "output" =>
          /\ writer.inner.data = last.before.inner.data
          /\ member_start = Len(writer.inner.data)
    /\ run.pc \in {"loop", "header", "block", "trailer", "check", "output"} =>
          /\ writer.buffer = LastN(MemberBytes, HISTORY_SIZE)
          /\ writer.digest = CrcFold(CrcInit, MemberBytes)
          /\ writer.byte_counter = Len(MemberBytes)
    /\ (Returned /\ run.expect.payload = Foo \o Bar /\ run.expect.valid) =>
          /\ Succeeded
          /\ writer.inner.data = Foo \o Bar

\* the index of the first 0 of b at or after i (one past the end if none)
RECURSIVE ZeroFrom(_, _)
ZeroFrom(b, i) ==
    IF i > Len(b) \/ b[i] = 0 THEN i ELSE ZeroFrom(b, i + 1)

\* where the fields of a header held in b end: the extra field, the name
\* and the comment, each absent when its flag is clear
ExtraEnd(b) ==
    IF bit(b[4], FEXTRA_OFFSET) THEN 12 + b[11] + 256 * b[12] ELSE 10

NameEnd(b) ==
    IF bit(b[4], FNAME_OFFSET) THEN ZeroFrom(b, ExtraEnd(b) + 1) ELSE ExtraEnd(b)

CommentEnd(b) ==
    IF bit(b[4], FCOMMENT_OFFSET) THEN ZeroFrom(b, NameEnd(b) + 1) ELSE NameEnd(b)

\* b starts with a whole deflate member header that carries a header CRC
HasHeaderCrc(b) ==
    /\ Len(b) >= 12
    /\ b[1] = ID1 /\ b[2] = ID2 /\ b[3] = CM_DEFLATE
    /\ bit(b[4], FHCRC_OFFSET)
    /\ Len(b) >= CommentEnd(b) + 2

\* the header CRC stored in b
StoredCrc16(b) == b[CommentEnd(b) + 1] + 256 * b[CommentEnd(b) + 2]

\* C13: when FHCRC is set, parse_header accepts the header iff the stored
\* 16-bit value is the low 16 bits of the CRC-32 of the header bytes read
\* before it, for every combination of FTEXT, FEXTRA, FNAME and FCOMMENT.
C13_HeaderCrc ==
    (last.op = "parse_header" /\ HasHeaderCrc(last.before.stream)) =>
        (last.ok <=>
            StoredCrc16(last.before.stream) =
                Crc32Of(SubSeq(last.before.stream, 1,
                               CommentEnd(last.before.stream))).lo)

\* the messages of the error decompress returned, outermost first
ErrorChain == { run.result.err[i] : i \in 1..Len(run.result.err) }

\* C14: decompress of a valid stream cut short strictly inside a member
\* never returns success and never aborts: it returns an error that reports
\* the unexpected end of input.
C14_Truncated ==
    (Returned /\ run.expect.cut) =>
        /\ run.pc = "done"
        /\ ~run.result.ok
        /\ "UnexpectedEof" \in ErrorChain

\* what is left of the source once the three header bits of the block were
\* read: they come from the unread bits of the current byte, or from the
\* next byte
AfterBlockHeader ==
    IF last.reader.bit_sequence.len >= 3 THEN last.reader.stream
    ELSE Tail(last.reader.stream)

StoredLen == AfterBlockHeader[1] + 256 * AfterBlockHeader[2]

StoredNlen == AfterBlockHeader[3] + 256 * AfterBlockHeader[4]

\* C15: for a block with btype = 0 the rest of the current byte is dropped
\* and LEN and NLEN are the next two little-endian u16.  If NLEN is not the
\* complement of LEN, next_block returns an error and no byte is emitted.
\* Otherwise (the source holding LEN more bytes) exactly those LEN bytes are
\* emitted, in order, next_block returns bfinal, and the reader stands at
\* bit 0 of the byte after them.
C15_StoredBlock ==
    (last.op = "next_block" /\ last.btype = 0 /\ Len(AfterBlockHeader) >= 4) =>
        /\ StoredNlen # 65535 - StoredLen =>
              /\ last.kind = "err"
              /\ writer.inner.data = last.before.inner.data
        /\ (StoredNlen = 65535 - StoredLen
            /\ Len(AfterBlockHeader) >= 4 + StoredLen) =>
              /\ last.kind = "ok"
              /\ last.value = last.bfinal
              /\ writer.inner.data =
                    last.before.inner.data
                    \o SubSeq(AfterBlockHeader, 5, 4 + StoredLen)
              /\ bit_reader =
                    BitReaderNew(SubSeq(AfterBlockHeader, 5 + StoredLen,
                                        Len(AfterBlockHeader)))

\* a stored block whose header was read from the unread bits of the byte in
\* which the block before it ended was copied after the bytes of that block
C15_Witness ==
    /\ last.op = "next_block" /\ last.btype = 0 /\ last.kind = "ok"
    /\ last.reader.bit_sequence.len >= 3
    /\ Len(AfterBlockHeader) >= 4 /\ StoredLen >= 1
    /\ last.before.inner.data # <<>>
    /\ writer.inner.data =
          last.before.inner.data \o SubSeq(AfterBlockHeader, 5, 4 + StoredLen)
    /\ bit_reader.bit_sequence.len = 0

----------------------------------------------------------------------------
(* Claims about dynamic table decoding *)

FirstIsCopyPrev(tokens) == tokens # <<>> /\ Head(tokens).sym = 16

\* the tokens decode_distance_token reads: those left by decode_letlen_token
DistanceTokens == TokensAfter(huffman.tokens, huffman.hlit + 257)

\* decode_letlen_token was called
LetlenStarted ==
    last.stage \in {"decode_letlen_token", "decode_distance_token", "done"}

\* decode_letlen_token returned its table and decode_distance_token was called
DistanceStarted == last.stage \in {"decode_distance_token", "done"}

\* C16: when the first token decoded for the literal/length vector, or the
\* first token decoded for the distance vector, is CopyPrev, the call of
\* decode_dynamic_tree returns an error: it does not abort
C16_CopyPrevFirst ==
    (/\ last.op = "decode_dynamic_tree"
     /\ \/ LetlenStarted /\ FirstIsCopyPrev(huffman.tokens)
        \/ DistanceStarted /\ FirstIsCopyPrev(DistanceTokens))
    => last.kind = "err"

\* the entries of a length vector from position `from` (counted from 0) on
\* are all 0
ZeroTail(vec, from) == \A k \in (from + 1)..Len(vec) : vec[k] = 0

\* C17: when decode_dynamic_tree succeeds, the literal/length vector has
\* exactly HLIT + 257 decoded entries and zeros from there on, and the
\* distance vector exactly HDIST + 1 decoded entries and zeros from there on
C17_ExactEntries ==
    (last.op = "decode_dynamic_tree" /\ last.kind = "ok")
    => /\ huffman.tables.letlen_pos = huffman.hlit + 257
       /\ ZeroTail(huffman.tables.letlen_lengths, huffman.hlit + 257)
       /\ huffman.tables.distance_pos = huffman.hdist + 1
       /\ ZeroTail(huffman.tables.distance_lengths, huffman.hdist + 1)

\* C19: for every bit stream, decode_dynamic_tree returns the two tables or
\* an error value: it never aborts on an index outside a length vector or
\* on a code value that does not fit in 16 bits
C19_NeverAborts ==
    last.op = "decode_dynamic_tree" => last.kind \in {"ok", "err"}

----------------------------------------------------------------------------
(* Claims about the order of the steps of a member *)

\* event e comes directly after event p in the order header, blocks up to
\* the final one, flush, trailer read, trailer verified, clear
Follows(p, e) ==
    \/ e = "header" /\ p = "clear"
    \/ e \in {"block", "final_block"} /\ p \in {"header", "block"}
    \/ e = "flush" /\ p = "final_block"
    \/ e = "trailer_read" /\ p = "flush"
    \/ e = "trailer_ok" /\ p = "trailer_read"
    \/ e = "clear" /\ p = "trailer_ok"

\* the event before event i; the first member starts as after a clear
EventBefore(i) == IF i = 1 THEN "clear" ELSE run.events[i - 1]

\* C18: for each member the events are, in this order: header parsed, blocks
\* decoded up to the final one, sink flushed, trailer read and verified,
\* TrackingWriter cleared; when the trailer has been read the sink is flushed
C18_MemberOrder ==
    /\ \A i \in 1..Len(run.events) : Follows(EventBefore(i), run.events[i])
    /\ last.op = "read_crc32_and_isize"
       => writer.inner.flushed = Len(writer.inner.data)

----------------------------------------------------------------------------
(* Claims about the length of a copy *)

\* C20: whenever write_previous(dist, len) returns success, the byte counter
\* has grown by len and len bytes were passed to the sink, for every dist
\* and len, dist = 0 with len > 0 included
C20_CopyEmitsLen ==
    (last.op = "write_previous" /\ last.ok) =>
        /\ writer.byte_counter = last.before.byte_counter + last.len
        /\ Len(AcceptedByCall) = last.len

====
